---- MODULE Spec2Model ----
(***************************************************************************)
(* Truck management: ticket valuation (createTicket, updateTicket,         *)
(* updateTicketStatus), invoice / settlement aggregation and the bulk      *)
(* bill-rate update, modelled from the admin and driver controllers and    *)
(* the MySQL schema.                                                       *)
(*                                                                         *)
(* Numbers.  A DECIMAL(10,2) column is an integer number of cents.  A      *)
(* JavaScript number that ends up in a DECIMAL(10,2) column is an exact    *)
(* rational [n, d]: mysql2 sends it as a DOUBLE, the server converts a     *)
(* DOUBLE to DECIMAL through its 15 significant digit decimal form and     *)
(* rounds half away from zero, so the binary error of the double (below    *)
(* 1e-15 relative) never reaches the stored cents.  The JSON numbers of an *)
(* invoice are never stored: they are IEEE-754 doubles, modelled bit for   *)
(* bit further down.                                                       *)
(***************************************************************************)
EXTENDS Integers, Sequences, FiniteSets, TLC

VARIABLES
    customers,   \* customers table: id -> [name, default_bill_rate (cents)]
    drivers,     \* drivers table:   id -> [user_id, user_id_code, name, default_pay_rate (cents), pin]
    tickets,     \* tickets table:   id (AUTO_INCREMENT, 1..Len) -> row
    res,         \* the last HTTP response, with the facts of its request
    sqlMode,     \* the server's sql_mode: "strict" or "lenient"
    upd,         \* concurrent updateTicket requests: process -> local state
    tx,          \* the updateBillRates transaction in flight
    users,       \* users table:     id -> [email, password, role]
    auto,        \* the AUTO_INCREMENT counter of users, drivers and customers
    pool,        \* connections taken from the pool and not released
    adm          \* driver-management requests in flight: process -> local state

vars == <<customers, drivers, tickets, res, sqlMode, upd, tx, users, auto, pool, adm>>

(***************************************************************************)
(* Bounds of the model.                                                    *)
(***************************************************************************)
MaxTickets == 1

\* Tickets created in the specification of createTicket alone.
MaxCreated == 2

(***************************************************************************)
(* Exact arithmetic                                                        *)
(***************************************************************************)
Abs(x) == IF x < 0 THEN -x ELSE x

RECURSIVE Gcd(_, _)
Gcd(a, b) == IF b = 0 THEN a ELSE Gcd(b, a % b)

\* The rational n/d (d > 0) in lowest terms.
Rat(n, d) ==
    LET g == Gcd(Abs(n), d)
    IN  [def |-> TRUE, n |-> n \div g, d |-> d \div g]

\* JavaScript undefined (an absent body field).
Undef == [def |-> FALSE, n |-> 0, d |-> 1]

Mul(a, b) == Rat(a.n * b.n, a.d * b.d)

Add(a, b) == Rat(a.n * b.d + b.n * a.d, a.d * b.d)

DivInt(a, k) == Rat(a.n, a.d * k)

\* n/d rounded to an integer, half away from zero (MySQL's rounding into an
\* exact-value column).
RoundHalfAway(n, d) ==
    IF n >= 0 THEN (2 * n + d) \div (2 * d)
              ELSE -((2 * (-n) + d) \div (2 * d))

\* A number stored into a DECIMAL(10,2) column: cents.
ToDecimal2(r) == RoundHalfAway(r.n * 100, r.d)

\* parseFloat / numeric coercion of a DECIMAL(10,2) value read back (mysql2
\* returns it as a string such as "121.67").
FromDecimal2(c) == Rat(c, 100)

(***************************************************************************)
(* IEEE-754 double arithmetic (JavaScript numbers that are returned, not   *)
(* stored).  A non-negative double is m * 2^e with an odd mantissa m below *)
(* 2^53 (zero: m = 0, e = 0); m is a sequence of limbs, least significant  *)
(* first, because it exceeds the model checker's integers.  Every result   *)
(* is rounded to nearest, ties to even, as the hardware does.  The amounts *)
(* of the model stay far from the exponent limits, which are not modelled. *)
(***************************************************************************)
LimbBits == 15

LimbBase == 2 ^ LimbBits

MantissaBits == 53

RECURSIVE BigNorm(_)
BigNorm(A) ==
    IF A # <<>> /\ A[Len(A)] = 0 THEN BigNorm(SubSeq(A, 1, Len(A) - 1)) ELSE A

RECURSIVE BigFromInt(_)
BigFromInt(n) ==
    IF n = 0 THEN <<>> ELSE <<n % LimbBase>> \o BigFromInt(n \div LimbBase)

RECURSIVE BigAddCarry(_, _, _)
BigAddCarry(A, B, carry) ==
    IF A = <<>> /\ B = <<>>
    THEN IF carry = 0 THEN <<>> ELSE <<carry>>
    ELSE LET a == IF A = <<>> THEN 0 ELSE Head(A)
             b == IF B = <<>> THEN 0 ELSE Head(B)
             t == a + b + carry
         IN  <<t % LimbBase>> \o
             BigAddCarry(IF A = <<>> THEN A ELSE Tail(A),
                         IF B = <<>> THEN B ELSE Tail(B), t \div LimbBase)

BigAdd(A, B) == BigNorm(BigAddCarry(A, B, 0))

RECURSIVE BigMulSmallCarry(_, _, _)
BigMulSmallCarry(A, c, carry) ==
    IF A = <<>>
    THEN IF carry = 0 THEN <<>> ELSE <<carry>>
    ELSE LET t == Head(A) * c + carry
         IN  <<t % LimbBase>> \o BigMulSmallCarry(Tail(A), c, t \div LimbBase)

\* A * c for 0 <= c < LimbBase.
BigMulSmall(A, c) == BigNorm(BigMulSmallCarry(A, c, 0))

RECURSIVE BigMul(_, _)
BigMul(A, B) ==
    IF B = <<>> \/ A = <<>> THEN <<>>
    ELSE BigAdd(BigMulSmall(A, Head(B)), BigNorm(<<0>> \o BigMul(A, Tail(B))))

\* Quotient and remainder of A by c, 0 < c <= LimbBase.
RECURSIVE BigDivSmall(_, _)
BigDivSmall(A, c) ==
    IF A = <<>> THEN [q |-> <<>>, r |-> 0]
    ELSE LET hi  == BigDivSmall(Tail(A), c)
             cur == hi.r * LimbBase + Head(A)
         IN  [q |-> BigNorm(<<cur \div c>> \o hi.q), r |-> cur % c]

RECURSIVE Zeros(_)
Zeros(k) == IF k = 0 THEN <<>> ELSE <<0>> \o Zeros(k - 1)

\* A * 2^s
BigShiftLeft(A, s) ==
    IF A = <<>> THEN <<>>
    ELSE BigMulSmall(Zeros(s \div LimbBits) \o A, 2 ^ (s % LimbBits))

\* floor(A / 2^s)
BigShiftRight(A, s) ==
    IF s \div LimbBits >= Len(A) THEN <<>>
    ELSE BigDivSmall(SubSeq(A, (s \div LimbBits) + 1, Len(A)), 2 ^ (s % LimbBits)).q

RECURSIVE BitLenSmall(_)
BitLenSmall(n) == IF n = 0 THEN 0 ELSE 1 + BitLenSmall(n \div 2)

BigBitLen(A) ==
    IF A = <<>> THEN 0 ELSE (Len(A) - 1) * LimbBits + BitLenSmall(A[Len(A)])

BigIsOdd(A) == A # <<>> /\ A[1] % 2 = 1


RECURSIVE TrailingZerosSmall(_)
TrailingZerosSmall(n) == IF n % 2 = 1 THEN 0 ELSE 1 + TrailingZerosSmall(n \div 2)

\* The number of zero bits below the lowest set bit of A (A is not zero).
RECURSIVE BigTrailingZeros(_)
BigTrailingZeros(A) ==
    IF Head(A) = 0 THEN LimbBits + BigTrailingZeros(Tail(A))
    ELSE TrailingZerosSmall(Head(A))

\* A mod 2^s is not zero (A is not zero).
BigLowNonZero(A, s) == BigTrailingZeros(A) < s

DZero == [m |-> <<>>, e |-> 0]

\* The canonical form of N * 2^e: an odd mantissa.
DNormal(N, e) ==
    IF N = <<>> THEN DZero
    ELSE LET tz == BigTrailingZeros(N)
         IN  [m |-> BigShiftRight(N, tz), e |-> e + tz]

\* N * 2^e rounded to a 53-bit mantissa, to nearest, ties to even.
DRound(N, e) ==
    LET len == BigBitLen(N)
    IN  IF len <= MantissaBits THEN DNormal(N, e)
        ELSE LET s      == len - MantissaBits
                 q      == BigShiftRight(N, s)
                 half   == BigIsOdd(BigShiftRight(N, s - 1))
                 sticky == BigLowNonZero(N, s - 1)
                 up     == half /\ (sticky \/ BigIsOdd(q))
             IN  DNormal(IF up THEN BigAdd(q, <<1>>) ELSE q, e + s)

\* a + b
DAdd(a, b) ==
    LET emin == IF a.e < b.e THEN a.e ELSE b.e
    IN  DRound(BigAdd(BigShiftLeft(a.m, a.e - emin), BigShiftLeft(b.m, b.e - emin)), emin)

\* a * b
DMul(a, b) == DRound(BigMul(a.m, b.m), a.e + b.e)

\* The double nearest to n / d (0 <= n, 0 < d < LimbBase): what a decimal
\* literal or parseFloat of a decimal string denotes.
DFromRatio(n, d) ==
    LET k  == 6 * LimbBits
        qr == BigDivSmall(BigShiftLeft(BigFromInt(n), k), d)
        sticky == IF qr.r = 0 THEN <<>> ELSE <<1>>
    IN  DRound(BigAdd(BigShiftLeft(qr.q, 1), sticky), -(k + 1))

(***************************************************************************)
(* Schema and seed data                                                    *)
(***************************************************************************)
StatusEnum == {"Pending", "Approved", "Rejected"}

\* The seeded customers of the schema.
SeedCustomers ==
    <<[name |-> "Aecon",            default_bill_rate |-> 13500],
      [name |-> "PCL Construction", default_bill_rate |-> 12000],
      [name |-> "EllisDon",         default_bill_rate |-> 11000]>>

\* A bcrypt hash: the text hashed and the salt drawn for it.
Hash(text, salt) == [text |-> text, salt |-> salt]

\* Two drivers as createDriver leaves them: user 1 is the seeded admin, the
\* drivers' users follow; the second driver has the column default pay rate.
SeedDrivers ==
    <<[user_id |-> 2, name |-> "Dana", default_pay_rate |-> 2500,
       user_id_code |-> "D1", pin |-> Hash("1111", 1)],
      [user_id |-> 3, name |-> "Eli",  default_pay_rate |-> 0,
       user_id_code |-> "D2", pin |-> Hash("2222", 1)]>>

\* The users of the seed: the sample admin and the accounts of the two
\* drivers.
SeedUsers ==
    <<[email |-> "admin@m.com", password |-> Hash("password", 1), role |-> "admin"],
      [email |-> "driver_D1@trucking.com", password |-> Hash("1111", 1), role |-> "driver"],
      [email |-> "driver_D2@trucking.com", password |-> Hash("2222", 1), role |-> "driver"]>>

\* The next id of each table after the seed.
SeedAuto ==
    [users |-> Len(SeedUsers) + 1, drivers |-> Len(SeedDrivers) + 1,
     customers |-> Len(SeedCustomers) + 1]

\* Authenticated driver users (req.user), with driverId set by the login.
DriverUsers ==
    {[id |-> SeedDrivers[d].user_id, driverId |-> d] : d \in DOMAIN SeedDrivers}

(***************************************************************************)
(* Responses                                                               *)
(***************************************************************************)
Response(op, code, id, empty, badStatus) ==
    [op |-> op, code |-> code, id |-> id, empty |-> empty, badStatus |-> badStatus]

NoResponse == Response("none", 0, 0, FALSE, FALSE)

(***************************************************************************)
(* createTicket (driver controller)                                        *)
(***************************************************************************)
Blank == " "

\* name.trim() on one comma-separated segment, a sequence of tokens.
RECURSIVE TrimLeft(_)
TrimLeft(seg) ==
    IF seg # <<>> /\ Head(seg) = Blank THEN TrimLeft(Tail(seg)) ELSE seg

RECURSIVE TrimRight(_)
TrimRight(seg) ==
    IF seg # <<>> /\ seg[Len(seg)] = Blank
    THEN TrimRight(SubSeq(seg, 1, Len(seg) - 1))
    ELSE seg

Trim(seg) == TrimRight(TrimLeft(seg))

\* The split and the trim without the filter: empty names are kept.
RECURSIVE SplitCustomersKeepEmpty(_)
SplitCustomersKeepEmpty(raw) ==
    IF raw = <<>> THEN <<>>
    ELSE <<Trim(Head(raw))>> \o SplitCustomersKeepEmpty(Tail(raw))

\* customer.split(',').map(trim).filter(nonempty): `raw` is the string as its
\* sequence of comma-separated segments.
RECURSIVE SplitCustomers(_)
SplitCustomers(raw) ==
    IF raw = <<>> THEN <<>>
    ELSE LET t == Trim(Head(raw))
         IN  IF t = <<>> THEN SplitCustomers(Tail(raw))
             ELSE <<t>> \o SplitCustomers(Tail(raw))

\* A customer name as one segment.
AsSegment(name) == <<name>>

\* SELECT default_bill_rate FROM customers WHERE name IN (...): the ids of
\* the rows returned (each customer at most once: it is a set of rows).
MatchingCustomers(names) ==
    {c \in DOMAIN customers :
        \E i \in DOMAIN names : names[i] = AsSegment(customers[c].name)}

\* customersData.reduce((sum, c) => sum + parseFloat(c.default_bill_rate), 0)
RECURSIVE SumRates(_)
SumRates(rows) ==
    IF rows = {} THEN Rat(0, 1)
    ELSE LET c == CHOOSE x \in rows : TRUE
         IN  Add(FromDecimal2(customers[c].default_bill_rate), SumRates(rows \ {c}))

\* The rates of the customers found added up and never divided.
ResolveBillRateSummed(names) == SumRates(MatchingCustomers(names))

\* The average bill rate of the customers found, 0 when none is found.
ResolveBillRate(names) ==
    LET rows == MatchingCustomers(names)
    IN  IF Cardinality(rows) > 0
        THEN DivInt(SumRates(rows), Cardinality(rows))
        ELSE Rat(0, 1)

\* driver.default_pay_rate || 0
ResolvePayRate(driver) == FromDecimal2(driver.default_pay_rate)

\* SELECT id, default_pay_rate FROM drivers WHERE id = ? OR user_id = ?
DriverRows(user) ==
    LET driverId == IF user.driverId # 0 THEN user.driverId ELSE user.id
    IN  {d \in DOMAIN drivers : d = driverId \/ drivers[d].user_id = user.id}

\* !quantity
Falsy(q) == ~q.def \/ q.n = 0

\* The row with the status taken from the request body.
NewTicketBodyStatus(driverId, body, names) ==
    LET billRate == ResolveBillRate(names)
        payRate  == ResolvePayRate(drivers[driverId])
    IN  [driver_id  |-> driverId,
         date       |-> body.date,
         customer   |-> names,
         quantity   |-> ToDecimal2(body.quantity),
         bill_rate  |-> ToDecimal2(billRate),
         pay_rate   |-> ToDecimal2(payRate),
         total_bill |-> ToDecimal2(Mul(body.quantity, billRate)),
         total_pay  |-> ToDecimal2(Mul(body.quantity, payRate)),
         status     |-> body.status]

\* The row createTicket inserts.
NewTicket(driverId, body, names) ==
    LET billRate == ResolveBillRate(names)
        payRate  == ResolvePayRate(drivers[driverId])
    IN  [driver_id  |-> driverId,
         date       |-> body.date,
         customer   |-> names,
         quantity   |-> ToDecimal2(body.quantity),
         bill_rate  |-> ToDecimal2(billRate),
         pay_rate   |-> ToDecimal2(payRate),
         total_bill |-> ToDecimal2(Mul(body.quantity, billRate)),
         total_pay  |-> ToDecimal2(Mul(body.quantity, payRate)),
         status     |-> "Pending"]

CreateTicket(user, body) ==
    /\ UNCHANGED <<adm, users, auto, pool, customers, drivers, sqlMode, upd, tx>>
    /\ IF DriverRows(user) = {}
       THEN /\ res' = Response("createTicket", 404, 0, FALSE, FALSE)
            /\ UNCHANGED tickets
       ELSE \E d \in DriverRows(user) :
              IF body.date = 0 \/ ~body.others \/ body.customer = <<>> \/ Falsy(body.quantity)
              THEN /\ res' = Response("createTicket", 400, 0, FALSE, FALSE)
                   /\ UNCHANGED tickets
              ELSE LET names == SplitCustomers(body.customer)
                   IN  IF Len(names) = 0
                       THEN /\ res' = Response("createTicket", 400, 0, TRUE, FALSE)
                            /\ UNCHANGED tickets
                       ELSE /\ tickets' = Append(tickets, NewTicket(d, body, names))
                            /\ res' = Response("createTicket", 201, Len(tickets) + 1, FALSE, FALSE)

(***************************************************************************)
(* updateTicket, updateTicketStatus (admin controller)                     *)
(***************************************************************************)
\* if (status): a non-empty string is truthy.
Truthy(s) == s # ""

\* The check of an empty update list left out.
NoFieldsUnchecked(p) == FALSE

\* updates.length === 0
NoFields(p) ==
    ~(p.bill_rate.def \/ p.pay_rate.def \/ Truthy(p.status) \/ p.quantity.def)

\* The parameters of the UPDATE built from the patch and the row read by the
\* SELECT: the supplied columns, and both totals from the final values.
SetClause(cur, p) ==
    LET finalQty      == IF p.quantity.def  THEN p.quantity  ELSE FromDecimal2(cur.quantity)
        finalBillRate == IF p.bill_rate.def THEN p.bill_rate ELSE FromDecimal2(cur.bill_rate)
        finalPayRate  == IF p.pay_rate.def  THEN p.pay_rate  ELSE FromDecimal2(cur.pay_rate)
    IN  [bill_rate  |-> p.bill_rate,
         pay_rate   |-> p.pay_rate,
         status     |-> p.status,
         quantity   |-> p.quantity,
         total_bill |-> Mul(finalQty, finalBillRate),
         total_pay  |-> Mul(finalQty, finalPayRate)]

\* Whether the server accepts the status of the UPDATE: a value outside the
\* ENUM is an error under a strict sql_mode.
StatusAccepted(s) == ~Truthy(s.status) \/ s.status \in StatusEnum \/ sqlMode = "lenient"

\* UPDATE tickets SET <columns of s> WHERE id = ?, on the row as it is now.
\* Under a lenient sql_mode a value outside the ENUM is stored as ''.
ExecUpdate(row, s) ==
    [row EXCEPT
        !.bill_rate  = IF s.bill_rate.def THEN ToDecimal2(s.bill_rate) ELSE @,
        !.pay_rate   = IF s.pay_rate.def  THEN ToDecimal2(s.pay_rate)  ELSE @,
        !.status     = IF ~Truthy(s.status) THEN @
                       ELSE IF s.status \in StatusEnum THEN s.status ELSE "",
        !.quantity   = IF s.quantity.def  THEN ToDecimal2(s.quantity)  ELSE @,
        !.total_bill = ToDecimal2(s.total_bill),
        !.total_pay  = ToDecimal2(s.total_pay)]

\* Facts of a request kept with its response: the patch names none of the
\* four fields; the status it supplies lies outside the enum.
PatchIsEmpty(p) ==
    ~p.quantity.def /\ ~p.bill_rate.def /\ ~p.pay_rate.def /\ p.status = ""

StatusOutsideEnum(status) == status # "" /\ status \notin StatusEnum

UpdateTicket(id, p) ==
    /\ UNCHANGED <<adm, users, auto, pool, customers, drivers, sqlMode, upd, tx>>
    /\ \E code \in {200, 400, 404, 500} :
          /\ res' = Response("updateTicket", code, id, PatchIsEmpty(p),
                              StatusOutsideEnum(p.status))
          /\ IF NoFields(p)
             THEN code = 400 /\ UNCHANGED tickets
             ELSE IF id \notin DOMAIN tickets
             THEN code = 404 /\ UNCHANGED tickets
             ELSE LET s == SetClause(tickets[id], p)
                  IN  IF StatusAccepted(s)
                      THEN /\ code = 200
                           /\ tickets' = [tickets EXCEPT ![id] = ExecUpdate(@, s)]
                      ELSE code = 500 /\ UNCHANGED tickets

\* !status || !['Pending', 'Approved', 'Rejected'].includes(status)
InvalidStatus(status) == ~Truthy(status) \/ status \notin StatusEnum

\* UPDATE tickets SET status = ? WHERE id = ?: no row matches an unknown id,
\* and the handler answers success all the same.
UpdateTicketStatus(id, status) ==
    /\ UNCHANGED <<adm, users, auto, pool, customers, drivers, sqlMode, upd, tx>>
    /\ IF InvalidStatus(status)
       THEN /\ res' = Response("updateTicketStatus", 400, id, status = "",
                               StatusOutsideEnum(status))
            /\ UNCHANGED tickets
       ELSE /\ tickets' = IF id \in DOMAIN tickets
                           THEN [tickets EXCEPT ![id].status = status]
                           ELSE tickets
            /\ res' = Response("updateTicketStatus", 200, id, status = "",
                               StatusOutsideEnum(status))

(***************************************************************************)
(* Ticket valuation: the requests served one at a time                     *)
(***************************************************************************)
NoTx == [pc |-> "idle", i |-> 0, rates |-> <<>>, work |-> <<>>, before |-> <<>>]

InitTables ==
    /\ customers = SeedCustomers
    /\ drivers = SeedDrivers
    /\ tickets = <<>>
    /\ res = NoResponse
    /\ upd = <<>>
    /\ tx = NoTx
    /\ users = SeedUsers
    /\ auto = SeedAuto
    /\ pool = 0
    /\ adm = <<>>

Init ==
    /\ InitTables
    /\ sqlMode \in {"strict", "lenient"}

\* Request values: quantities 10 and 3; rates 1.004 and 20.
Quantities == {Rat(10, 1)}

PatchQuantities == {Undef, Rat(3, 1)}

PatchBillRates == {Undef, Rat(1004, 1000)}

PatchPayRates == {Undef, Rat(20, 1)}

PatchStatuses == {"", "Approved", "Shipped"}

StatusInputs == {"", "Pending", "Rejected", "Shipped"}

Patches ==
    [quantity : PatchQuantities, bill_rate : PatchBillRates,
     pay_rate : PatchPayRates, status : PatchStatuses]

Bodies ==
    [date : {1}, others : {TRUE}, quantity : Quantities \cup {Undef},
     customer : {<<AsSegment("Aecon")>>}]

TicketIds == 1 .. (MaxTickets + 1)

FirstDriverUser == [id |-> SeedDrivers[1].user_id, driverId |-> 1]

Next ==
    \/ \E b \in Bodies :
          Len(tickets) < MaxTickets /\ CreateTicket(FirstDriverUser, b)
    \/ \E id \in TicketIds, p \in Patches : UpdateTicket(id, p)
    \/ \E id \in TicketIds, s \in StatusInputs : UpdateTicketStatus(id, s)

Spec == Init /\ [][Next]_vars

(***************************************************************************)
(* createTicket alone, over customer strings that name one, several,       *)
(* repeated, padded, unknown and no customers                              *)
(***************************************************************************)
Unknown == AsSegment("Acme Paving")

CustomerStrings ==
    {<<AsSegment("Aecon")>>,
     <<AsSegment("EllisDon")>>,
     <<Unknown>>,
     <<AsSegment("Aecon"), <<Blank, "PCL Construction">>>>,
     <<AsSegment("Aecon"), Unknown>>,
     <<AsSegment("Aecon"), AsSegment("Aecon")>>,
     <<AsSegment("Aecon"), <<Blank, "PCL Construction">>, <<Blank, "EllisDon", Blank>>>>,
     <<<<Blank>>, AsSegment("PCL Construction")>>,
     <<<<Blank>>, <<Blank>>>>}

CreateBodies ==
    [date : {1}, others : {TRUE, FALSE},
     quantity : {Rat(10, 1), Rat(3, 1), Rat(-5, 1), Undef},
     customer : CustomerStrings]

NextCreate ==
    \E u \in DriverUsers, b \in CreateBodies :
        Len(tickets) < MaxCreated /\ CreateTicket(u, b)

SpecCreate == Init /\ [][NextCreate]_vars

(***************************************************************************)
(* updateTicket under concurrency: the handler awaits the SELECT and then  *)
(* the UPDATE, two statements on the pool with no transaction around them, *)
(* so another request's statements may run in between.                     *)
(***************************************************************************)
Procs == {1, 2}

NoPatch == [quantity |-> Undef, bill_rate |-> Undef, pay_rate |-> Undef, status |-> ""]

\* SELECT quantity, bill_rate, pay_rate FROM tickets WHERE id = ?
SelectCurrent(row) ==
    [quantity |-> row.quantity, bill_rate |-> row.bill_rate, pay_rate |-> row.pay_rate]

IdleRequest == [pc |-> "idle", id |-> 0, patch |-> NoPatch, cur |-> SelectCurrent(
                    [quantity |-> 0, bill_rate |-> 0, pay_rate |-> 0]), code |-> 0]

\* A request up to and including its SELECT.
UpdSelect(p, id, patch) ==
    /\ upd[p].pc = "idle"
    /\ UNCHANGED <<adm, users, auto, pool, customers, drivers, sqlMode, tickets, tx>>
    /\ \E code \in {0, 400, 404} :
          /\ IF NoFields(patch) THEN code = 400
             ELSE IF id \notin DOMAIN tickets THEN code = 404
             ELSE code = 0
          /\ upd' = [upd EXCEPT ![p] =
                        [pc    |-> IF code = 0 THEN "selected" ELSE "done",
                         id    |-> id,
                         patch |-> patch,
                         cur   |-> IF code = 0 THEN SelectCurrent(tickets[id]) ELSE @.cur,
                         code  |-> code]]
          /\ res' = IF code = 0 THEN res
                    ELSE Response("updateTicket", code, id, PatchIsEmpty(patch),
                                  StatusOutsideEnum(patch.status))

\* The same request's UPDATE, computed from what its SELECT returned.
UpdWrite(p) ==
    /\ upd[p].pc = "selected"
    /\ UNCHANGED <<adm, users, auto, pool, customers, drivers, sqlMode, tx>>
    /\ LET r == upd[p]
           s == SetClause(r.cur, r.patch)
           code == IF StatusAccepted(s) THEN 200 ELSE 500
       IN  /\ tickets' = IF code = 200
                          THEN [tickets EXCEPT ![r.id] = ExecUpdate(@, s)]
                          ELSE tickets
           /\ upd' = [upd EXCEPT ![p] = [r EXCEPT !.pc = "done", !.code = code]]
           /\ res' = Response("updateTicket", code, r.id, PatchIsEmpty(r.patch),
                              StatusOutsideEnum(r.patch.status))

\* Patches whose products are whole cents: quantity 3, bill rate 2, pay rate 20.
RacePatches ==
    [quantity : {Undef, Rat(3, 1)}, bill_rate : {Undef, Rat(2, 1)},
     pay_rate : {Undef, Rat(20, 1)}, status : {"", "Approved"}]

FirstBody ==
    [date |-> 1, others |-> TRUE, quantity |-> Rat(10, 1),
     customer |-> <<AsSegment("Aecon")>>]

\* One ticket, as createTicket stored it, and two requests about to arrive.
InitRace ==
    /\ customers = SeedCustomers
    /\ drivers = SeedDrivers
    /\ tickets = <<NewTicket(1, FirstBody, SplitCustomers(FirstBody.customer))>>
    /\ res = NoResponse
    /\ upd = [p \in Procs |-> IdleRequest]
    /\ tx = NoTx
    /\ users = SeedUsers
    /\ auto = SeedAuto
    /\ pool = 0
    /\ adm = <<>>
    /\ sqlMode \in {"strict", "lenient"}

NextRace ==
    \/ \E p \in Procs, id \in 1 .. 2, patch \in RacePatches : UpdSelect(p, id, patch)
    \/ \E p \in Procs : UpdWrite(p)

SpecRace == InitRace /\ [][NextRace]_vars

(***************************************************************************)
(* Query strings.  A query parameter is a string, "" when it is missing.   *)
(***************************************************************************)
\* The character at position i of s, as a string of length 1.
Char(s, i) == SubSeq(s, i, i)

IsDigit(c) == c \in {"0", "1", "2", "3", "4", "5", "6", "7", "8", "9"}

DigitValue(c) == CHOOSE d \in 0 .. 9 : Char("0123456789", d + 1) = c

AllDigits(s) == \A i \in 1 .. Len(s) : IsDigit(Char(s, i))

\* The value of a string of decimal digits.
RECURSIVE DecimalValue(_)
DecimalValue(s) ==
    IF Len(s) = 0 THEN 0
    ELSE 10 * DecimalValue(SubSeq(s, 1, Len(s) - 1)) + DigitValue(Char(s, Len(s)))

\* s.includes(c) for a character c.
Includes(s, c) == \E i \in 1 .. Len(s) : Char(s, i) = c

\* s.split(c) for a character c: the pieces between the occurrences of c.
RECURSIVE Split(_, _)
Split(s, c) ==
    IF ~Includes(s, c) THEN <<s>>
    ELSE LET i == CHOOSE k \in 1 .. Len(s) :
                     Char(s, k) = c /\ \A j \in 1 .. (k - 1) : Char(s, j) # c
         IN  <<SubSeq(s, 1, i - 1)>> \o Split(SubSeq(s, i + 1, Len(s)), c)

\* String.prototype.trim, on blanks.
RECURSIVE StrTrimStart(_)
StrTrimStart(s) ==
    IF Len(s) > 0 /\ Char(s, 1) = " " THEN StrTrimStart(SubSeq(s, 2, Len(s))) ELSE s

RECURSIVE StrTrimEnd(_)
StrTrimEnd(s) ==
    IF Len(s) > 0 /\ Char(s, Len(s)) = " " THEN StrTrimEnd(SubSeq(s, 1, Len(s) - 1)) ELSE s

StrTrim(s) == StrTrimEnd(StrTrimStart(s))

UpperCase == "ABCDEFGHIJKLMNOPQRSTUVWXYZ"
LowerCase == "abcdefghijklmnopqrstuvwxyz"

UpperLetters == {Char(UpperCase, i) : i \in 1 .. 26}
LowerLetters == {Char(LowerCase, i) : i \in 1 .. 26}

IsLetter(c) == c \in UpperLetters \cup LowerLetters

\* The lower-case letter of each upper-case letter.
LowerOf ==
    [c \in UpperLetters |-> Char(LowerCase, CHOOSE i \in 1 .. 26 : Char(UpperCase, i) = c)]

LowerChar(c) == IF c \in UpperLetters THEN LowerOf[c] ELSE c

RECURSIVE LowerFrom(_, _)
LowerFrom(s, i) ==
    IF i > Len(s) THEN "" ELSE LowerChar(Char(s, i)) \o LowerFrom(s, i + 1)

ToLower(s) == LowerFrom(s, 1)

AllLetters(s) == \A i \in 1 .. Len(s) : IsLetter(Char(s, i))

\* customerNames.join(', '): the customer column as createTicket stored it.
RECURSIVE ConcatTokens(_)
ConcatTokens(seg) ==
    IF seg = <<>> THEN "" ELSE Head(seg) \o ConcatTokens(Tail(seg))

RECURSIVE JoinNames(_)
JoinNames(names) ==
    IF names = <<>> THEN ""
    ELSE IF Len(names) = 1 THEN ConcatTokens(names[1])
    ELSE ConcatTokens(names[1]) \o ", " \o JoinNames(Tail(names))

\* column = ? under utf8mb4_unicode_ci: letter case and trailing blanks do
\* not count.
SqlEquals(a, b) == ToLower(StrTrimEnd(a)) = ToLower(StrTrimEnd(b))

\* /^\d{4}-\d{2}-\d{2}$/.test(s)
DateRegexTest(s) ==
    /\ Len(s) = 10
    /\ \A i \in {1, 2, 3, 4, 6, 7, 9, 10} : IsDigit(Char(s, i))
    /\ Char(s, 5) = "-" /\ Char(s, 8) = "-"

\* The day a DATE column is compared with when the parameter is the string
\* s: the server reads 'Y-M-D' with one or two digits of month and day as
\* well as 'YYYY-MM-DD'.  Days are counted as the ticket dates are, day 1
\* being 2025-01-01 and every month taking 31 numbers; 0 for a string that
\* is no such literal (none reaches a query in the requests modelled).
SqlDay(s) ==
    LET parts == Split(s, "-")
    IN  IF Len(parts) = 3 /\ \A k \in 1 .. 3 : Len(parts[k]) > 0 /\ AllDigits(parts[k])
        THEN (DecimalValue(parts[1]) - 2025) * 372
               + (DecimalValue(parts[2]) - 1) * 31 + DecimalValue(parts[3])
        ELSE 0

(***************************************************************************)
(* generateInvoice, downloadInvoice, generateSettlement, downloadSettlement*)
(* (admin controller).  Ticket dates are day numbers; the sums are         *)
(* JavaScript Numbers (IEEE-754 doubles).                                  *)
(***************************************************************************)
\* A response with the request's parameters, the days its period denotes,
\* the number of statements the handler sent to the database, and the data
\* it returns.
Report(op, code, id, startDate, endDate, reads, data) ==
    [op |-> op, code |-> code, id |-> id, empty |-> FALSE, badStatus |-> FALSE,
     query |-> [startDate |-> startDate, endDate |-> endDate],
     startDate |-> SqlDay(startDate), endDate |-> SqlDay(endDate),
     reads |-> reads, data |-> data]

NoData == [tickets |-> <<>>]

\* The customer column read as the first of its names only.
CustomerIsFirstName(t, name) == SqlEquals(ConcatTokens(t.customer[1]), name)

\* t.customer = ?: the column holds the names joined by ', ', so it equals a
\* customer's name when that name is the only one of the ticket or is itself
\* the joined string.
CustomerIs(t, name) == SqlEquals(JoinNames(t.customer), name)

\* t.date >= ? AND t.date <= ?
InPeriod(t, startDate, endDate) == t.date >= startDate /\ t.date <= endDate

\* The invoice query with the status condition left out.
InvoiceRowsAnyStatus(name, startDate, endDate) ==
    {i \in DOMAIN tickets :
        CustomerIs(tickets[i], name) /\ InPeriod(tickets[i], startDate, endDate)}

\* WHERE t.customer = ? AND t.status = 'Approved' AND t.date >= ? AND t.date <= ?
InvoiceRows(name, startDate, endDate) ==
    {i \in DOMAIN tickets :
        /\ CustomerIs(tickets[i], name)
        /\ tickets[i].status = "Approved"
        /\ InPeriod(tickets[i], startDate, endDate)}

\* The settlement query restricted to approved tickets.
SettlementRowsApproved(driverId, startDate, endDate) ==
    {i \in DOMAIN tickets :
        /\ tickets[i].driver_id = driverId
        /\ tickets[i].status = "Approved"
        /\ InPeriod(tickets[i], startDate, endDate)}

\* WHERE t.driver_id = ? AND t.date >= ? AND t.date <= ?
SettlementRows(driverId, startDate, endDate) ==
    {i \in DOMAIN tickets :
        tickets[i].driver_id = driverId /\ InPeriod(tickets[i], startDate, endDate)}

\* ORDER BY t.date ASC: the rows in any order that has the dates ascending
\* (SQL leaves the order of rows with equal dates open).
OrderedByDate(rows) ==
    {o \in [1 .. Cardinality(rows) -> rows] :
        /\ \A i, j \in DOMAIN o : i # j => o[i] # o[j]
        /\ \A i, j \in DOMAIN o : i < j => tickets[o[i]].date <= tickets[o[j]].date}

\* parseFloat of a DECIMAL(10,2) column, which the driver returns as a string.
ParseFloat(cents) == DFromRatio(cents, 100)

\* tickets.reduce((sum, ticket) => sum + parseFloat(ticket[column]), 0) over
\* the first k rows of the result.
RECURSIVE ReduceSum(_, _, _)
ReduceSum(o, column, k) ==
    IF k = 0 THEN DZero
    ELSE DAdd(ReduceSum(o, column, k - 1), ParseFloat(tickets[o[k]][column]))

\* The literal 0.05.
FivePercent == DFromRatio(5, 100)

\* subtotal, gst = subtotal * 0.05, total = subtotal + gst
InvoiceTotals(o) ==
    LET subtotal == ReduceSum(o, "total_bill", Len(o))
        gst      == DMul(subtotal, FivePercent)
    IN  [tickets |-> o, subtotal |-> subtotal, gst |-> gst,
         total |-> DAdd(subtotal, gst)]

\* SELECT name FROM customers WHERE id = ?, with every customer found.
CustomerRowsAny(customerId) == {1}

\* SELECT name FROM customers WHERE id = ?
CustomerRows(customerId) == {c \in DOMAIN customers : c = customerId}

\* SELECT ... FROM drivers WHERE id = ?
DriverRowsById(driverId) == {d \in DOMAIN drivers : d = driverId}

GenerateInvoice(customerId, startDate, endDate) ==
    /\ UNCHANGED <<adm, users, auto, pool, customers, drivers, tickets, sqlMode, upd, tx>>
    /\ IF customerId = 0 \/ startDate = "" \/ endDate = ""
       THEN res' = Report("generateInvoice", 400, customerId, startDate, endDate, 0, NoData)
       ELSE IF CustomerRows(customerId) = {}
       THEN res' = Report("generateInvoice", 404, customerId, startDate, endDate, 1, NoData)
       ELSE \E c \in CustomerRows(customerId) :
            \E o \in OrderedByDate(InvoiceRows(customers[c].name, SqlDay(startDate),
                                               SqlDay(endDate))) :
              res' = Report("generateInvoice", 200, customerId, startDate, endDate, 2,
                            InvoiceTotals(o))

\* tickets.length === 0 taken for false: an empty invoice is rendered.
NoRowsIgnored(o) == FALSE

\* tickets.length === 0
NoRows(o) == Len(o) = 0

\* The PDF is made from the same rows and totals; no rows is an error here.
DownloadInvoice(customerId, startDate, endDate) ==
    /\ UNCHANGED <<adm, users, auto, pool, customers, drivers, tickets, sqlMode, upd, tx>>
    /\ IF customerId = 0 \/ startDate = "" \/ endDate = ""
       THEN res' = Report("downloadInvoice", 400, customerId, startDate, endDate, 0, NoData)
       ELSE IF ~DateRegexTest(startDate) \/ ~DateRegexTest(endDate)
       THEN res' = Report("downloadInvoice", 400, customerId, startDate, endDate, 0, NoData)
       ELSE IF CustomerRows(customerId) = {}
       THEN res' = Report("downloadInvoice", 404, customerId, startDate, endDate, 1, NoData)
       ELSE \E c \in CustomerRows(customerId) :
            \E o \in OrderedByDate(InvoiceRows(customers[c].name, SqlDay(startDate),
                                               SqlDay(endDate))) :
              IF NoRows(o)
              THEN res' = Report("downloadInvoice", 404, customerId, startDate,
                                 endDate, 2, NoData)
              ELSE res' = Report("downloadInvoice", 200, customerId, startDate,
                                 endDate, 2, InvoiceTotals(o))

GenerateSettlement(driverId, startDate, endDate) ==
    /\ UNCHANGED <<adm, users, auto, pool, customers, drivers, tickets, sqlMode, upd, tx>>
    /\ IF driverId = 0 \/ startDate = "" \/ endDate = ""
       THEN res' = Report("generateSettlement", 400, driverId, startDate, endDate, 0, NoData)
       ELSE IF ~DateRegexTest(startDate) \/ ~DateRegexTest(endDate)
       THEN res' = Report("generateSettlement", 400, driverId, startDate, endDate, 0, NoData)
       ELSE IF DriverRowsById(driverId) = {}
       THEN res' = Report("generateSettlement", 404, driverId, startDate, endDate, 1, NoData)
       ELSE \E o \in OrderedByDate(SettlementRows(driverId, SqlDay(startDate),
                                                  SqlDay(endDate))) :
              res' = Report("generateSettlement", 200, driverId, startDate, endDate, 2,
                            [tickets |-> o,
                             totalPay |-> ReduceSum(o, "total_pay", Len(o))])

\* The settlement PDF names the driver and the period as given; it reads no
\* ticket.
DownloadSettlement(driverId, startDate, endDate) ==
    /\ UNCHANGED <<adm, users, auto, pool, customers, drivers, tickets, sqlMode, upd, tx>>
    /\ IF driverId = 0 \/ startDate = "" \/ endDate = ""
       THEN res' = Report("downloadSettlement", 400, driverId, startDate, endDate, 0, NoData)
       ELSE IF DriverRowsById(driverId) = {}
       THEN res' = Report("downloadSettlement", 404, driverId, startDate, endDate, 1, NoData)
       ELSE res' = Report("downloadSettlement", 200, driverId, startDate, endDate, 1, NoData)

\* Tickets in the table when the reports are asked for.
AggTickets == 3

\* A ticket as createTicket stored it, then repriced by updateTicket (when
\* the patch names a field) and given its status by updateTicketStatus.
StoredTicket(driverId, date, raw, quantity, patch, status) ==
    LET body    == [date |-> date, others |-> TRUE, quantity |-> quantity,
                    customer |-> raw]
        created == NewTicket(driverId, body, SplitCustomers(raw))
        priced  == IF NoFields(patch) THEN created
                   ELSE ExecUpdate(created, SetClause(SelectCurrent(created), patch))
    IN  [priced EXCEPT !.status = status]

\* Two approved tickets of one customer billed 100.00 and 250.50, a pending
\* and a rejected one of the same driver and customer, a ticket naming two
\* customers, and a ticket of the other driver for another customer.
TicketRows ==
    <<StoredTicket(1, 1, <<AsSegment("Aecon")>>, Rat(1, 1),
                   [NoPatch EXCEPT !.bill_rate = Rat(100, 1)], "Approved"),
      StoredTicket(1, 2, <<AsSegment("Aecon")>>, Rat(1, 1),
                   [NoPatch EXCEPT !.bill_rate = Rat(2505, 10)], "Approved"),
      StoredTicket(1, 2, <<AsSegment("Aecon")>>, Rat(10, 1), NoPatch, "Pending"),
      StoredTicket(1, 3, <<AsSegment("Aecon")>>, Rat(10, 1), NoPatch, "Rejected"),
      StoredTicket(2, 2, <<AsSegment("Aecon"), AsSegment("PCL Construction")>>,
                   Rat(10, 1), [NoPatch EXCEPT !.pay_rate = Rat(20, 1)], "Approved"),
      StoredTicket(2, 1, <<AsSegment("PCL Construction")>>, Rat(3, 1),
                   [NoPatch EXCEPT !.pay_rate = Rat(20, 1)], "Approved")>>

\* The tables of AggTickets of these tickets, created in the order above.
TicketTables ==
    {[i \in 1 .. AggTickets |-> TicketRows[f[i]]] :
        f \in {g \in [1 .. AggTickets -> DOMAIN TicketRows] :
                  \A i, j \in 1 .. AggTickets : i < j => g[i] < g[j]}}

InitAgg ==
    /\ customers = SeedCustomers
    /\ drivers = SeedDrivers
    /\ tickets \in TicketTables
    /\ res = NoResponse
    /\ upd = <<>>
    /\ tx = NoTx
    /\ users = SeedUsers
    /\ auto = SeedAuto
    /\ pool = 0
    /\ adm = <<>>
    /\ sqlMode = "strict"

\* Query parameters: an id that is missing (0), known, or unknown; a period
\* with a date missing, of one day, or of several days, and periods with a
\* date written without its leading zeros.
Periods ==
    {[startDate |-> "",           endDate |-> "2025-01-02"],
     [startDate |-> "2025-01-01", endDate |-> ""],
     [startDate |-> "2025-01-02", endDate |-> "2025-01-02"],
     [startDate |-> "2025-01-01", endDate |-> "2025-01-03"],
     [startDate |-> "2025-1-1",   endDate |-> "2025-01-02"],
     [startDate |-> "2025-01-02", endDate |-> "2025-1-3"]}

CustomerIds == {0, 1, 2, Len(SeedCustomers) + 1}

DriverIds == 0 .. (Len(SeedDrivers) + 1)

NextAgg ==
    \/ \E c \in CustomerIds, p \in Periods :
          GenerateInvoice(c, p.startDate, p.endDate)
    \/ \E c \in CustomerIds, p \in Periods :
          DownloadInvoice(c, p.startDate, p.endDate)
    \/ \E d \in DriverIds, p \in Periods :
          GenerateSettlement(d, p.startDate, p.endDate)
    \/ \E d \in DriverIds, p \in Periods :
          DownloadSettlement(d, p.startDate, p.endDate)

SpecAgg == InitAgg /\ [][NextAgg]_vars

(***************************************************************************)
(* updateBillRates (admin controller): one transaction on one connection.  *)
(* customers is the committed table, which every other connection reads;   *)
(* tx.work is the table as the transaction sees it, tx.before the table    *)
(* when the call began (kept for the properties, the code has no copy).    *)
(***************************************************************************)
\* Rows of a batch.
MaxBatch == 2

\* connection.execute refuses a bind parameter that is undefined.
BindRejected(rate) == ~rate.default_bill_rate.def

\* UPDATE customers SET default_bill_rate = ? WHERE id = ?: an id that no
\* customer has matches no row, and the statement succeeds.
UpdateRate(table, rate) ==
    IF rate.id \in DOMAIN table
    THEN [table EXCEPT ![rate.id].default_bill_rate = ToDecimal2(rate.default_bill_rate)]
    ELSE table

\* The catch block without its rollback: the work done is kept.
AfterRollbackOmitted(committed, work) == work

\* connection.rollback(): the committed table is what remains.
AfterRollback(committed, work) == committed

\* connectionLimit of the pool: with waitForConnections a getConnection
\* beyond it waits for a release.
ConnectionLimit == 10

\* Array.isArray(rates), getConnection, beginTransaction.
RatesBegin(isArray, rates) ==
    /\ tx.pc \in {"idle", "committed", "rolledback"}
    /\ isArray => pool < ConnectionLimit
    /\ UNCHANGED <<adm, users, auto, customers, drivers, tickets, sqlMode, upd>>
    /\ IF ~isArray
       THEN /\ res' = Response("updateBillRates", 400, 0, FALSE, FALSE)
            /\ UNCHANGED <<tx, pool>>
       ELSE /\ tx' = [pc |-> "loop", i |-> 1, rates |-> rates,
                      work |-> customers, before |-> customers]
            /\ pool' = pool + 1
            /\ UNCHANGED res

\* getConnection or beginTransaction throws: both stand before the inner
\* try, so the outer catch answers 500 and nothing releases the connection
\* that was taken.
RatesBeginFails(rates, failure) ==
    /\ tx.pc \in {"idle", "committed", "rolledback"}
    /\ pool < ConnectionLimit
    /\ UNCHANGED <<adm, users, auto, customers, drivers, tickets, sqlMode, upd, tx>>
    /\ pool' = IF failure = "beginTransaction" THEN pool + 1 ELSE pool
    /\ res' = Response("updateBillRates", 500, 0, FALSE, FALSE)

\* One turn of the loop: the UPDATE of row i, which the storage may fail.
RatesExecute ==
    /\ tx.pc = "loop" /\ tx.i <= Len(tx.rates)
    /\ UNCHANGED <<adm, users, auto, pool, customers, drivers, tickets, sqlMode, upd, res>>
    /\ \E failure \in BOOLEAN :
          IF failure \/ BindRejected(tx.rates[tx.i])
          THEN tx' = [tx EXCEPT !.pc = "failed"]
          ELSE tx' = [tx EXCEPT !.work = UpdateRate(@, tx.rates[tx.i]), !.i = @ + 1]

\* connection.commit() after the last row, the success response and the
\* release of the connection; a commit that fails is caught like a row.
RatesCommit ==
    /\ tx.pc = "loop" /\ tx.i > Len(tx.rates)
    /\ UNCHANGED <<adm, users, auto, drivers, tickets, sqlMode, upd>>
    /\ \E failure \in BOOLEAN :
          IF failure
          THEN /\ tx' = [tx EXCEPT !.pc = "failed"]
               /\ UNCHANGED <<pool, customers, res>>
          ELSE /\ customers' = tx.work
               /\ pool' = pool - 1
               /\ tx' = [tx EXCEPT !.pc = "committed"]
               /\ res' = Response("updateBillRates", 200, 0, FALSE, FALSE)

\* catch: rollback and rethrow; finally: release; outer catch: 500.
RatesRollback ==
    /\ tx.pc = "failed"
    /\ UNCHANGED <<adm, users, auto, drivers, tickets, sqlMode, upd>>
    /\ customers' = AfterRollback(customers, tx.work)
    /\ pool' = pool - 1
    /\ tx' = [tx EXCEPT !.pc = "rolledback"]
    /\ res' = Response("updateBillRates", 500, 0, FALSE, FALSE)

\* Rows {id, default_bill_rate}: the id of a customer or of none, a new rate
\* of 150 or none given.
RateRows ==
    [id : {1, 2, Len(SeedCustomers) + 1}, default_bill_rate : {Rat(150, 1), Undef}]

RECURSIVE Batches(_)
Batches(n) ==
    IF n = 0 THEN {<<>>}
    ELSE Batches(n - 1) \cup
         {Append(b, r) : b \in {c \in Batches(n - 1) : Len(c) = n - 1}, r \in RateRows}

InitRates ==
    /\ InitTables
    /\ sqlMode = "strict"

NextRates ==
    \/ \E b \in Batches(MaxBatch) : RatesBegin(TRUE, b)
    \/ RatesBegin(FALSE, <<>>)
    \/ RatesExecute
    \/ RatesCommit
    \/ RatesRollback

SpecRates == InitRates /\ [][NextRates]_vars

(***************************************************************************)
(* Claims on ticket valuation                                              *)
(***************************************************************************)
\* The stored totals of a row are the products of its stored quantity and
\* rates (all in cents, so the product carries a factor 100).
TotalsMatchStored(t) ==
    /\ t.total_bill * 100 = t.quantity * t.bill_rate
    /\ t.total_pay * 100 = t.quantity * t.pay_rate

\* C1: after every successful updateTicket, whatever non-empty subset of
\* quantity, bill_rate, pay_rate and status it supplied, the updated ticket's
\* stored total_bill is its stored quantity x bill_rate and its stored
\* total_pay is its stored quantity x pay_rate.
C1_TotalsFollowStoredFields ==
    (res.op = "updateTicket" /\ res.code = 200) =>
        TotalsMatchStored(tickets[res.id])

\* C9: every ticket's status is Pending, Approved or Rejected, and an admin
\* update of an existing ticket that supplies a status outside that set is
\* answered with a validation error (400).
C9_StatusAlwaysValid ==
    /\ \A id \in DOMAIN tickets : tickets[id].status \in StatusEnum
    /\ (res.op \in {"updateTicket", "updateTicketStatus"}
            /\ res.badStatus /\ res.id \in DOMAIN tickets)
        => res.code = 400

\* C10: an updateTicket whose patch holds none of quantity, bill_rate,
\* pay_rate and status is answered with a validation error (400) and changes
\* no ticket.
C10_EmptyPatchRejected ==
    [][(res'.op = "updateTicket" /\ res'.empty)
          => (res'.code = 400 /\ tickets' = tickets)]_vars

\* An empty patch sent for an existing ticket was rejected.
C10_Witness ==
    /\ res.op = "updateTicket" /\ res.empty /\ res.code = 400
    /\ res.id \in DOMAIN tickets

\* C2: when two updateTicket requests on the same ticket run concurrently,
\* once both have completed the stored total_bill is the stored quantity x
\* bill_rate and the stored total_pay the stored quantity x pay_rate, in
\* every interleaving.
C2_ConcurrentUpdatesConsistent ==
    (\A p \in Procs : upd[p].pc = "done" /\ upd[p].code = 200 /\ upd[p].id = 1)
        => TotalsMatchStored(tickets[1])

(***************************************************************************)
(* Claims on rate resolution                                               *)
(***************************************************************************)
\* The customers a ticket names that exist, and the total of their rates.
NamedCustomers(t) ==
    {c \in DOMAIN customers :
        \E i \in DOMAIN t.customer : t.customer[i] = <<customers[c].name>>}

RECURSIVE RateTotal(_)
RateTotal(S) ==
    IF S = {} THEN 0
    ELSE LET c == CHOOSE x \in S : TRUE
         IN  customers[c].default_bill_rate + RateTotal(S \ {c})

\* C3 as stated: every created ticket's bill_rate is the arithmetic mean of
\* default_bill_rate over the customers it names that exist, 0 when none
\* exists, and its pay_rate is its driver's default_pay_rate.
C3_BillRateIsExactMean ==
    \A id \in DOMAIN tickets :
        LET t == tickets[id]
            S == NamedCustomers(t)
        IN  /\ t.bill_rate * Cardinality(S) = RateTotal(S)
            /\ (S = {} => t.bill_rate = 0)
            /\ t.pay_rate = drivers[t.driver_id].default_pay_rate

\* C3 (amended): every created ticket's bill_rate is the arithmetic mean of
\* default_bill_rate over the customers it names that exist, rounded to the
\* nearest cent of its DECIMAL(10,2) column (so the mean itself whenever that
\* has at most two decimals), and 0 when none of them exists; its pay_rate
\* is its driver's default_pay_rate.
C3_BillRateIsRoundedMean ==
    \A id \in DOMAIN tickets :
        LET t == tickets[id]
            S == NamedCustomers(t)
            k == Cardinality(S)
        IN  /\ 2 * Abs(t.bill_rate * k - RateTotal(S)) <= k
            /\ (S = {} => t.bill_rate = 0)
            /\ t.pay_rate = drivers[t.driver_id].default_pay_rate

\* A ticket naming the three seeded customers carries the mean 121.666...
\* as 121.67, and one naming two of them the mean 127.50, not the sum.
C3_Witness ==
    /\ \E id \in DOMAIN tickets :
          Cardinality(NamedCustomers(tickets[id])) = 3 /\ tickets[id].bill_rate = 12167
    /\ \E id \in DOMAIN tickets :
          Cardinality(NamedCustomers(tickets[id])) = 2 /\ tickets[id].bill_rate = 12750

(***************************************************************************)
(* Claims on invoices and settlements                                      *)
(***************************************************************************)
\* The ticket ids of a listing.
Listed(o) == {o[k] : k \in DOMAIN o}

\* The dates of a listing never go down.
DatesAscending(o) ==
    \A i, j \in DOMAIN o : i < j => tickets[o[i]].date <= tickets[o[j]].date

\* C4: an invoice for customer C and a period lists exactly the tickets
\* whose customer field is C's name, whose status is Approved and whose date
\* lies in the period, both bounds included, each once and in ascending date
\* order; its subtotal is summed over the tickets listed, so that no Pending
\* or Rejected ticket and no ticket outside the period is listed or summed.
C4_InvoiceListsApprovedInPeriod ==
    (res.op = "generateInvoice" /\ res.code = 200) =>
        LET o    == res.data.tickets
            want == {i \in DOMAIN tickets :
                        /\ tickets[i].customer = <<<<customers[res.id].name>>>>
                        /\ tickets[i].status = "Approved"
                        /\ res.startDate <= tickets[i].date
                        /\ tickets[i].date <= res.endDate}
        IN  /\ Listed(o) = want
            /\ Len(o) = Cardinality(want)
            /\ DatesAscending(o)
            /\ res.data.subtotal = ReduceSum(o, "total_bill", Len(o))

\* An invoice for a one-day period lists a ticket of that day while the
\* customer also has an approved ticket outside the period and a ticket in
\* the period that is not approved.
C4_Witness ==
    /\ res.op = "generateInvoice" /\ res.code = 200
    /\ res.startDate = res.endDate
    /\ res.data.tickets # <<>>
    /\ \E i \in DOMAIN tickets :
          /\ tickets[i].customer = <<<<customers[res.id].name>>>>
          /\ tickets[i].status = "Approved"
          /\ tickets[i].date < res.startDate
    /\ \E i \in DOMAIN tickets :
          /\ tickets[i].customer = <<<<customers[res.id].name>>>>
          /\ tickets[i].status # "Approved"
          /\ tickets[i].date = res.startDate

\* C5: a settlement for driver D and a period lists every ticket of D whose
\* date lies in the period, both bounds included, whatever its status, and
\* totalPay is the sum of their total_pay (the Number sum, in the order of
\* the listing); an invoice lists approved tickets only.
C5_SettlementListsAllStatuses ==
    /\ (res.op = "generateSettlement" /\ res.code = 200) =>
          LET o    == res.data.tickets
              want == {i \in DOMAIN tickets :
                          /\ tickets[i].driver_id = res.id
                          /\ res.startDate <= tickets[i].date
                          /\ tickets[i].date <= res.endDate}
          IN  /\ Listed(o) = want
              /\ Len(o) = Cardinality(want)
              /\ res.data.totalPay = ReduceSum(o, "total_pay", Len(o))
    /\ (res.op = "generateInvoice" /\ res.code = 200) =>
          \A i \in Listed(res.data.tickets) : tickets[i].status = "Approved"

\* A settlement that lists three tickets of one driver and one customer, one
\* Pending, one Approved and one Rejected, and pays more than any one of them.
C5_Witness ==
    /\ res.op = "generateSettlement" /\ res.code = 200
    /\ Len(res.data.tickets) = 3
    /\ {tickets[i].status : i \in Listed(res.data.tickets)} = StatusEnum
    /\ \A i, j \in Listed(res.data.tickets) : tickets[i].customer = tickets[j].customer
    /\ res.data.totalPay = ParseFloat(52500)

\* The exact sum, in cents, of total_bill over a listing.
RECURSIVE BilledCents(_, _)
BilledCents(o, k) ==
    IF k = 0 THEN 0 ELSE BilledCents(o, k - 1) + tickets[o[k]].total_bill

\* C6: on every invoice (returned or printed) subtotal is the sum of
\* total_bill over the listed tickets, gst is exactly 5% of it and total is
\* subtotal plus gst, each being the Number that denotes that decimal value
\* (350.5, 17.525 and 368.025 for tickets billed 100.00 and 250.50).
C6_InvoiceTotalsExact ==
    (res.op \in {"generateInvoice", "downloadInvoice"} /\ res.code = 200) =>
        LET cents == BilledCents(res.data.tickets, Len(res.data.tickets))
        IN  /\ res.data.subtotal = DFromRatio(cents, 100)
            /\ res.data.gst = DFromRatio(5 * cents, 10000)
            /\ res.data.total = DFromRatio(105 * cents, 10000)

(***************************************************************************)
(* Claims on the batch update of bill rates                                *)
(***************************************************************************)
\* C7: a batch with a row whose id no customer has leaves every customer's
\* default_bill_rate as it was before the call, once the call has ended.
C7_UnknownIdLeavesRatesUnchanged ==
    (/\ tx.pc \in {"committed", "rolledback"}
     /\ \E k \in DOMAIN tx.rates : tx.rates[k].id \notin DOMAIN tx.before)
        => customers = tx.before

\* C8: once the UPDATE of a row (or the commit) of a batch has failed, the
\* next step of the call rolls the transaction back and reports the failure,
\* and every customer's default_bill_rate is then what it was before the
\* call, the rows updated earlier in the batch included.
C8_FailedBatchRolledBack ==
    [][tx.pc = "failed" =>
          /\ tx'.pc = "rolledback"
          /\ res'.op = "updateBillRates" /\ res'.code = 500
          /\ customers' = tx.before]_vars

\* A call that failed on its second row, after its first row had changed a
\* rate inside the transaction, has ended with the failure reported.
C8_Witness ==
    /\ tx.pc = "rolledback"
    /\ tx.i = 2
    /\ tx.work # tx.before
    /\ res.code = 500

(***************************************************************************)
(* Claims on missing tickets, creation totals and signs                    *)
(***************************************************************************)
\* C11: an admin update (updateTicket or updateTicketStatus) whose id matches
\* no ticket is answered with a not-found error (404), or with the
\* validation error (400) of a request that is invalid in itself, and never
\* with success.
C11_UnknownTicketNotFound ==
    (res.op \in {"updateTicket", "updateTicketStatus"} /\ res.id \notin DOMAIN tickets)
        => \/ res.code = 404
           \/ res.code = 400 /\ (res.empty \/ res.badStatus)

\* C12: every ticket createTicket has stored carries a total_bill equal to
\* its stored quantity x its stored bill_rate and a total_pay equal to its
\* stored quantity x its stored pay_rate, also when the bill rate is a mean
\* with more than two decimals.
C12_CreatedTotalsFollowStoredFields ==
    \A id \in DOMAIN tickets : TotalsMatchStored(tickets[id])

\* C13: every stored ticket has a quantity, a total_bill and a total_pay
\* that are not negative, whatever the requests carried.
C13_NothingNegativeStored ==
    \A id \in DOMAIN tickets :
        tickets[id].quantity >= 0 /\ tickets[id].total_bill >= 0 /\ tickets[id].total_pay >= 0

(***************************************************************************)
(* Claims on empty invoices, date formats and unknown ids                  *)
(***************************************************************************)
\* The tickets an invoice for the customer and period of the response has
\* to bill.
Billable ==
    {i \in DOMAIN tickets :
        /\ tickets[i].customer = <<<<customers[res.id].name>>>>
        /\ tickets[i].status = "Approved"
        /\ res.startDate <= tickets[i].date
        /\ tickets[i].date <= res.endDate}

\* Both dates of the request are given.
DatesGiven == res.query.startDate # "" /\ res.query.endDate # ""

\* A date written as four digits, two digits and two digits with hyphens.
MatchesDatePattern(s) ==
    LET parts == Split(s, "-")
    IN  /\ Len(parts) = 3
        /\ Len(parts[1]) = 4 /\ Len(parts[2]) = 2 /\ Len(parts[3]) = 2
        /\ \A k \in 1 .. 3 : AllDigits(parts[k])

ReportOps ==
    {"generateInvoice", "downloadInvoice", "generateSettlement", "downloadSettlement"}

\* C18: when no ticket matches a known customer and a period, generateInvoice
\* succeeds with an empty ticket list and subtotal, gst and total all zero,
\* whereas downloadInvoice for such inputs answers with an error and renders
\* nothing.
C18_EmptyInvoiceValidExportRefused ==
    (res.op \in {"generateInvoice", "downloadInvoice"} /\ DatesGiven
       /\ res.id \in DOMAIN customers /\ Billable = {})
    => /\ res.op = "generateInvoice" =>
            /\ res.code = 200
            /\ res.data.tickets = <<>>
            /\ res.data.subtotal = DZero /\ res.data.gst = DZero /\ res.data.total = DZero
       /\ res.op = "downloadInvoice" =>
            res.code \in {400, 404} /\ res.data = NoData

\* An empty invoice returned for a customer who has tickets, none of them
\* approved within the period.
C18_Witness ==
    /\ res.op = "generateInvoice" /\ res.code = 200
    /\ res.data.tickets = <<>> /\ res.data.total = DZero
    /\ \E i \in DOMAIN tickets : tickets[i].customer = <<<<customers[res.id].name>>>>

\* C19: in generateInvoice, downloadInvoice, generateSettlement and
\* downloadSettlement a start or end date that is given but does not match
\* the pattern YYYY-MM-DD is rejected with a format error (400) before any
\* statement is sent to the database.
C19_MalformedDateRejectedBeforeStorage ==
    (res.op \in ReportOps /\ DatesGiven
       /\ ~(MatchesDatePattern(res.query.startDate) /\ MatchesDatePattern(res.query.endDate)))
    => res.code = 400 /\ res.reads = 0

\* C20: generateInvoice with a customer id that no customer has, and
\* generateSettlement with a driver id that no driver has, never succeed and
\* return no tickets and no totals; when the dates of the request pass the
\* handler's checks the answer is the not-found error (404).
C20_UnknownPartyNotFound ==
    /\ (res.op = "generateInvoice" /\ res.id \notin DOMAIN customers) =>
          /\ res.code \in {400, 404} /\ res.data = NoData
          /\ (res.id # 0 /\ DatesGiven) => res.code = 404
    /\ (res.op = "generateSettlement" /\ res.id \notin DOMAIN drivers) =>
          /\ res.code \in {400, 404} /\ res.data = NoData
          /\ (res.id # 0 /\ DatesGiven /\ MatchesDatePattern(res.query.startDate)
                /\ MatchesDatePattern(res.query.endDate)) => res.code = 404

\* An invoice asked for a customer id that no customer has, with tickets in
\* the table, answered with 404.
C20_Witness ==
    /\ res.op = "generateInvoice" /\ res.code = 404
    /\ res.id # 0 /\ res.id \notin DOMAIN customers
    /\ tickets # <<>>

(***************************************************************************)
(* getAllTickets (admin controller)                                        *)
(***************************************************************************)
\* A value of req.query: a string, absent, or an array of strings (a key
\* given more than once).
Str(s) == [kind |-> "string", s |-> s]
Undefined == [kind |-> "undefined", s |-> ""]
ArrayOf(s) == [kind |-> "array", s |-> s]

\* The not-a-number result of parseInt and of getTime; a variable left
\* undefined fails the same tests of line 440 and is written the same way.
NaN == -1

\* The longest prefix of decimal digits.
RECURSIVE DigitPrefix(_)
DigitPrefix(s) ==
    IF Len(s) > 0 /\ IsDigit(Char(s, 1))
    THEN Char(s, 1) \o DigitPrefix(SubSeq(s, 2, Len(s)))
    ELSE ""

\* parseInt(s, 10): leading blanks and a plus sign are skipped, the digits
\* that follow are read and whatever comes after them is ignored.  (A minus
\* sign cannot reach it: the string is split on '-' or has none.)
ParseInt(s) ==
    LET t == StrTrimStart(s)
        u == IF Len(t) > 0 /\ Char(t, 1) = "+" THEN SubSeq(t, 2, Len(t)) ELSE t
        d == DigitPrefix(u)
    IN  IF d = "" THEN NaN ELSE DecimalValue(d)

\* The month names of the date parser, recognised by their first three
\* letters in any case; longer words are accepted.
MonthPrefixes ==
    <<"jan", "feb", "mar", "apr", "may", "jun", "jul", "aug", "sep", "oct", "nov", "dec">>

IsDay(n) == 1 <= n /\ n <= 31
IsMonth(n) == 1 <= n /\ n <= 12

\* new Date(`${monthName} 1, ${year}`).getMonth(), or NaN for an invalid
\* date, for a monthName of letters only or of digits only (the parser of
\* V8 for strings that are not ISO dates).  A word that names a month gives
\* that month, 1 the day and the second number the year.  Another word in
\* front of the numbers is skipped, and two numbers are read as month and
\* day.  Three numbers are read as month, day and year, or as year, month
\* and day when the first cannot be a day.
DateGetMonth(monthName, year) ==
    CASE year = NaN -> NaN
      [] year # NaN /\ AllLetters(monthName) ->
            LET pre == ToLower(SubSeq(monthName, 1, 3))
            IN  IF \E k \in 1 .. 12 : MonthPrefixes[k] = pre
                THEN IF year <= 275760
                     THEN (CHOOSE k \in 1 .. 12 : MonthPrefixes[k] = pre) - 1
                     ELSE NaN
                ELSE IF IsDay(year) THEN 0 ELSE NaN
      [] year # NaN /\ ~AllLetters(monthName) /\ AllDigits(monthName) ->
            LET n == DecimalValue(monthName)
            IN  IF ~IsDay(n)
                THEN IF IsDay(year) THEN 0 ELSE NaN
                ELSE IF IsMonth(n) /\ year <= 275760 THEN n - 1 ELSE NaN

\* The month of getMonth taken as it is, January being 0.
MonthNumZeroBased(getMonth) == getMonth

\* dateObj.getMonth() + 1
MonthNum(getMonth) == getMonth + 1

\* Lines 415-444: the month and the year the period filter compares with,
\* or the empty tuple when no filter is added.
MonthFilter(month) ==
    IF month = "" \/ StrTrim(month) = "" THEN <<>>
    ELSE LET parsed ==
                 IF Includes(month, "-")
                 THEN LET parts == Split(month, "-")
                      IN  IF Len(parts) = 2 /\ parts[1] # "" /\ parts[2] # ""
                          THEN [year |-> ParseInt(parts[1]), monthNum |-> ParseInt(parts[2])]
                          ELSE [year |-> NaN, monthNum |-> NaN]
                 ELSE LET parts == Split(month, " ")
                      IN  IF Len(parts) >= 2 /\ parts[1] # "" /\ parts[Len(parts)] # ""
                          THEN LET year     == ParseInt(parts[Len(parts)])
                                   getMonth == DateGetMonth(parts[1], year)
                               IN  [year     |-> year,
                                    monthNum |-> IF getMonth # NaN THEN MonthNum(getMonth)
                                                 ELSE NaN]
                          ELSE [year |-> NaN, monthNum |-> NaN]
         IN  IF /\ parsed.monthNum # NaN /\ parsed.monthNum # 0
                /\ parsed.year # NaN /\ parsed.year # 0
                /\ parsed.monthNum >= 1 /\ parsed.monthNum <= 12
             THEN <<parsed.monthNum, parsed.year>>
             ELSE <<>>

\* customer && customer !== 'All' && customer.trim() !== ''
ActiveNamed(v) == v # "" /\ v # "All" /\ StrTrim(v) # ""

\* status && status.trim() !== ''
ActiveText(v) == v # "" /\ StrTrim(v) # ""

\* A bound parameter.
NumberParam(n) == [kind |-> "number", n |-> n, s |-> ""]
StringParam(s) == [kind |-> "string", n |-> 0, s |-> s]

\* A push of the month without the year.
MonthParamsShort(filter) == <<NumberParam(filter[1])>>

\* params.push(monthNum, year)
MonthParams(filter) == <<NumberParam(filter[1]), NumberParam(filter[2])>>

\* The clauses appended to WHERE 1=1, in order, and the parameters pushed.
BuildQuery(q) ==
    LET filter == MonthFilter(q.month.s)
        period   == filter # <<>>
        customer == ActiveNamed(q.customer.s)
        driver   == ActiveNamed(q.driver.s)
        status   == ActiveText(q.status.s)
        search   == ActiveText(q.search.s)
    IN  [filter  |-> filter,
         clauses |-> (IF period THEN <<"period">> ELSE <<>>)
                     \o (IF customer THEN <<"customer">> ELSE <<>>)
                     \o (IF driver THEN <<"driver">> ELSE <<>>)
                     \o (IF status THEN <<"status">> ELSE <<>>)
                     \o (IF search THEN <<"search">> ELSE <<>>),
         params  |-> (IF period THEN MonthParams(filter) ELSE <<>>)
                     \o (IF customer THEN <<StringParam(q.customer.s)>> ELSE <<>>)
                     \o (IF driver THEN <<StringParam(q.driver.s)>> ELSE <<>>)
                     \o (IF status THEN <<StringParam(q.status.s)>> ELSE <<>>)
                     \o (IF search THEN <<StringParam("%" \o q.search.s \o "%")>> ELSE <<>>)]

\* The number of ? a clause holds.
PlaceholdersOf(clause) == IF clause = "period" THEN 2 ELSE 1

RECURSIVE Placeholders(_)
Placeholders(clauses) ==
    IF clauses = <<>> THEN 0
    ELSE PlaceholdersOf(Head(clauses)) + Placeholders(Tail(clauses))

\* params.filter(param => param !== undefined && param !== null)
ValidParams(params) == SelectSeq(params, LAMBDA p : p.kind \notin {"undefined", "null"})

\* MONTH(t.date) and YEAR(t.date) of a date of the calendar of SqlDay.
MonthOfDate(d) == ((d - 1) % 372) \div 31 + 1
YearOfDate(d) == 2025 + (d - 1) \div 372

\* column LIKE pattern under the same collation: % stands for any string and
\* _ for any one character.  (No pattern here holds the escape character.)
RECURSIVE Like(_, _)
Like(s, p) ==
    IF Len(p) = 0 THEN Len(s) = 0
    ELSE LET c    == Char(p, 1)
             rest == SubSeq(p, 2, Len(p))
         IN  CASE c = "%" -> Like(s, rest) \/ (Len(s) > 0 /\ Like(SubSeq(s, 2, Len(s)), p))
               [] c = "_" -> Len(s) > 0 /\ Like(SubSeq(s, 2, Len(s)), rest)
               [] OTHER   -> /\ Len(s) > 0
                             /\ LowerChar(Char(s, 1)) = LowerChar(c)
                             /\ Like(SubSeq(s, 2, Len(s)), rest)

\* One clause of the WHERE on a ticket row joined with its driver, with the
\* parameters bound to its placeholders.
ClauseHolds(t, clause, bound) ==
    CASE clause = "period"   -> /\ MonthOfDate(t.date) = bound[1].n
                                /\ YearOfDate(t.date) = bound[2].n
      [] clause = "customer" -> SqlEquals(JoinNames(t.customer), bound[1].s)
      [] clause = "driver"   -> /\ t.driver_id \in DOMAIN drivers
                                /\ SqlEquals(drivers[t.driver_id].name, bound[1].s)
      [] clause = "status"   -> SqlEquals(t.status, bound[1].s)
      [] clause = "search"   -> Like(t.ticket_number, bound[1].s)

RECURSIVE WhereHolds(_, _, _)
WhereHolds(t, clauses, params) ==
    IF clauses = <<>> THEN TRUE
    ELSE LET n == PlaceholdersOf(Head(clauses))
         IN  /\ ClauseHolds(t, Head(clauses), SubSeq(params, 1, n))
             /\ WhereHolds(t, Tail(clauses), SubSeq(params, n + 1, Len(params)))

\* The ids of the rows the statement selects.
SelectedTickets(built) ==
    {i \in DOMAIN tickets : WhereHolds(tickets[i], built.clauses, built.params)}

\* ORDER BY t.date DESC, t.created_at DESC: created_at has a resolution of
\* one second, so the order of two tickets of one date is open.
OrderedByDateDesc(o) ==
    \A i, j \in DOMAIN o : i < j => tickets[o[i]].date >= tickets[o[j]].date

Listings(ids) ==
    {o \in [1 .. Cardinality(ids) -> ids] :
        /\ \A i, j \in DOMAIN o : i # j => o[i] # o[j]
        /\ OrderedByDateDesc(o)}

\* The response, with the request, the statement built and whether it was
\* sent to the database.
ListResponse(code, q, built, reached, data) ==
    [op |-> "getAllTickets", code |-> code, id |-> 0, empty |-> FALSE,
     badStatus |-> FALSE, query |-> q, filter |-> built.filter,
     placeholders |-> Placeholders(built.clauses), params |-> built.params,
     reached |-> reached, data |-> data]

NoStatement == [filter |-> <<>>, clauses |-> <<>>, params |-> <<>>]

\* Query values.  Period tokens: none, blank, the two formats for three
\* months, tokens that name no month or no year, tokens with text after the
\* number, a word that begins like a month name, a month given as a number,
\* and a key given twice.
NoQuery ==
    [month |-> Undefined, customer |-> Undefined, driver |-> Undefined,
     status |-> Undefined, search |-> Undefined]

MonthValues ==
    {Str(" "), ArrayOf("2025-11")}
        \cup {Str(s) : s \in {"Nov 2025", "2026-11", "November 2026", "2025-06",
                              "June 2025", "garbage", "2025-13", "Foo 2025",
                              "November", "2025-11-05", "2025-11abc", "Junk 2025",
                              "11 2025", "Foo 25"}}

CustomerValues == {Str(" "), Str("EllisDon"), Str("aecon"), ArrayOf("Aecon")}

DriverValues == {Str(" "), Str("Nobody")}

StatusValues == {Str(""), Str(" "), Str("Pending")}

SearchValues == {Str(" "), Str("t-1"), Str("_")}

\* Every combination of a few values of the five filters, and the other
\* values alone or, for the period, next to a customer.
Queries ==
    {[month |-> m, customer |-> c, driver |-> d, status |-> s, search |-> x] :
        m \in {Undefined, Str("2025-11"), Str("November 2025")},
        c \in {Undefined, Str("All"), Str("Aecon")},
        d \in {Undefined, Str("All"), Str("Dana")},
        s \in {Undefined, Str("Approved")},
        x \in {Undefined, Str("10")}}
    \cup {[NoQuery EXCEPT !.month = m, !.customer = c] :
            m \in MonthValues, c \in {Undefined, Str("Aecon")}}
    \cup {[NoQuery EXCEPT !.customer = c] : c \in CustomerValues}
    \cup {[NoQuery EXCEPT !.driver = d] : d \in DriverValues}
    \cup {[NoQuery EXCEPT !.status = s] : s \in StatusValues}
    \cup {[NoQuery EXCEPT !.search = x] : x \in SearchValues}

\* The statement built for each request.
Statement == [q \in Queries |-> BuildQuery(q)]

QueryFields == {"month", "customer", "driver", "status", "search"}

\* A value that is not a string is truthy and has no trim method.
Throws(q) == \E f \in QueryFields : q[f].kind = "array"

GetAllTickets(q) ==
    /\ UNCHANGED <<adm, users, auto, pool, customers, drivers, tickets, sqlMode, upd, tx>>
    /\ IF Throws(q)
       THEN res' = ListResponse(500, q, NoStatement, FALSE, <<>>)
       ELSE LET built == Statement[q]
            IN  IF Len(ValidParams(built.params)) # Len(built.params)
                THEN res' = ListResponse(400, q, built, FALSE, <<>>)
                ELSE IF Placeholders(built.clauses) # Len(built.params)
                THEN res' = ListResponse(500, q, built, TRUE, <<>>)
                ELSE \E o \in Listings(SelectedTickets(built)) :
                        res' = ListResponse(200, q, built, TRUE, o)

\* The number of tickets in the table getAllTickets reads.
ListTickets == 2

\* A stored ticket with its ticket number.
NumberedTicket(number, driverId, date, raw, status) ==
    [ticket_number |-> number]
        @@ StoredTicket(driverId, date, raw, Rat(10, 1), NoPatch, status)

\* Tickets of 5 and 20 November 2025, of 3 November 2026, of 10 June 2025
\* and of 15 January 2025, the last one naming two customers.
ListRows ==
    <<NumberedTicket("T-101", 1, SqlDay("2025-11-05"), <<AsSegment("Aecon")>>, "Approved"),
      NumberedTicket("T-102", 2, SqlDay("2025-11-20"), <<AsSegment("PCL Construction")>>,
                     "Pending"),
      NumberedTicket("T-201", 1, SqlDay("2026-11-03"), <<AsSegment("Aecon")>>, "Approved"),
      NumberedTicket("X_9", 2, SqlDay("2025-06-10"), <<AsSegment("Aecon")>>, "Rejected"),
      NumberedTicket("T-103", 1, SqlDay("2025-01-15"),
                     <<AsSegment("Aecon"), AsSegment("PCL Construction")>>, "Pending")>>

\* The tables of ListTickets of these tickets, created in the order above.
ListTables ==
    {[i \in 1 .. ListTickets |-> ListRows[f[i]]] :
        f \in {g \in [1 .. ListTickets -> DOMAIN ListRows] :
                  \A i, j \in 1 .. ListTickets : i < j => g[i] < g[j]}}

InitList ==
    /\ customers = SeedCustomers
    /\ drivers = SeedDrivers
    /\ tickets \in ListTables
    /\ res = NoResponse
    /\ upd = <<>>
    /\ tx = NoTx
    /\ users = SeedUsers
    /\ auto = SeedAuto
    /\ pool = 0
    /\ adm = <<>>
    /\ sqlMode = "strict"

NextList == \E q \in Queries : GetAllTickets(q)

SpecList == InitList /\ [][NextList]_vars

(***************************************************************************)
(* Claims on getAllTickets                                                 *)
(***************************************************************************)
MonthNames ==
    <<"January", "February", "March", "April", "May", "June", "July", "August",
      "September", "October", "November", "December">>

\* The (month, year) pairs a "YYYY-MM" token names: digits, a hyphen and
\* digits, with a month from 1 to 12 and a year.
IsoPeriod(token) ==
    LET parts == Split(token, "-")
    IN  IF /\ Len(parts) = 2
           /\ \A k \in 1 .. 2 : parts[k] # "" /\ AllDigits(parts[k])
        THEN {<<m, DecimalValue(parts[1])>> :
                 m \in {n \in 1 .. 12 : n = DecimalValue(parts[2])
                                            /\ DecimalValue(parts[1]) > 0}}
        ELSE {}

\* The (month, year) pairs a "<MonthName> YYYY" token names: the name of a
\* month or its first three letters, a blank and the digits of a year.
NamedPeriod(token) ==
    LET parts == Split(token, " ")
    IN  IF Len(parts) = 2 /\ parts[2] # "" /\ AllDigits(parts[2])
        THEN {<<m, DecimalValue(parts[2])>> :
                 m \in {n \in 1 .. 12 :
                           /\ ToLower(parts[1]) \in {ToLower(MonthNames[n]),
                                                     ToLower(SubSeq(MonthNames[n], 1, 3))}
                           /\ DecimalValue(parts[2]) > 0}}
        ELSE {}

\* The ids a response lists.
ListedIds == {res.data[k] : k \in DOMAIN res.data}

\* A getAllTickets response to a request whose values are strings or absent.
AnsweredList == res.op = "getAllTickets" /\ ~Throws(res.query)

\* C14: getAllTickets with the period "YYYY-MM" and with the period
\* "<MonthName> YYYY" naming the same month and year, all else equal, add the
\* same (month, year) filter and return the same tickets.
C14_BothPeriodFormatsAgree ==
    AnsweredList =>
        \A q \in Queries :
            \A p \in IsoPeriod(q.month.s) \cap NamedPeriod(res.query.month.s) :
                ([q EXCEPT !.month = res.query.month] = res.query /\ q.month.kind = "string")
                => /\ res.code = 200
                   /\ res.filter = p
                   /\ Statement[q].filter = p
                   /\ ListedIds = SelectedTickets(Statement[q])

\* The list for "November 2025" keeps a ticket and drops another.
C14_Witness ==
    /\ res.op = "getAllTickets" /\ res.code = 200
    /\ res.query.month = Str("November 2025")
    /\ res.filter = <<11, 2025>>
    /\ ListedIds # {} /\ ListedIds # DOMAIN tickets

\* C15: for every period token that names no month from 1 to 12 with a year
\* in either format, getAllTickets adds no period filter, answers 200 and
\* returns the tickets of the same request without a period.
C15_UnresolvedPeriodIgnored ==
    (AnsweredList /\ res.query.month.kind = "string"
       /\ IsoPeriod(res.query.month.s) \cup NamedPeriod(res.query.month.s) = {})
    => /\ res.code = 200
       /\ res.filter = <<>>
       /\ ListedIds = SelectedTickets(BuildQuery([res.query EXCEPT !.month = Undefined]))

\* s occurs in t, letter case apart.
Contains(t, s) ==
    \E i \in 1 .. (Len(t) - Len(s) + 1) :
        ToLower(SubSeq(t, i, i + Len(s) - 1)) = ToLower(s)

NotBlank(v) == v.kind = "string" /\ \E i \in 1 .. Len(v.s) : Char(v.s, i) # " "

\* A ticket satisfies every active filter of the request of the response:
\* the period as the handler resolved it, customer, driver and status by
\* exact match, the search as a part of the ticket number.
SatisfiesFilters(t) ==
    /\ res.filter # <<>> =>
          MonthOfDate(t.date) = res.filter[1] /\ YearOfDate(t.date) = res.filter[2]
    /\ (NotBlank(res.query.customer) /\ res.query.customer.s # "All") =>
          JoinNames(t.customer) = res.query.customer.s
    /\ (NotBlank(res.query.driver) /\ res.query.driver.s # "All") =>
          drivers[t.driver_id].name = res.query.driver.s
    /\ NotBlank(res.query.status) => t.status = res.query.status.s
    /\ NotBlank(res.query.search) => Contains(t.ticket_number, res.query.search.s)

\* C16: getAllTickets returns exactly the tickets that satisfy all active
\* filters, where "All" or a blank customer or driver and a blank status or
\* search are inactive; with no active filter it returns every ticket, and
\* taking a filter away from the request never takes a ticket away.
C16_ExactlyTheFilteredTickets ==
    AnsweredList =>
        /\ res.code = 200
        /\ ListedIds = {i \in DOMAIN tickets : SatisfiesFilters(tickets[i])}
        /\ \A f \in QueryFields :
              ListedIds \subseteq SelectedTickets(BuildQuery([res.query EXCEPT ![f] = Undefined]))

\* The number of parameters the active filters of the request ask for.
ExpectedParams ==
    (IF res.filter # <<>> THEN 2 ELSE 0)
    + Cardinality({f \in {"customer", "driver"} :
                      NotBlank(res.query[f]) /\ res.query[f].s # "All"})
    + Cardinality({f \in {"status", "search"} : NotBlank(res.query[f])})

\* C17: whenever getAllTickets sends its statement to the database the
\* statement has as many placeholders as parameters, one or two for each
\* active filter and none for the others, and every parameter is a number
\* or a string; a request with a value that is not a string sends nothing.
C17_PlaceholdersMatchParams ==
    res.op = "getAllTickets" =>
        /\ res.reached =>
              /\ res.placeholders = Len(res.params)
              /\ Len(res.params) = ExpectedParams
              /\ \A k \in DOMAIN res.params :
                    \/ res.params[k].kind = "string"
                    \/ res.params[k].kind = "number" /\ res.params[k].n # NaN
        /\ Throws(res.query) =>
              ~res.reached /\ res.placeholders = 0 /\ res.params = <<>>

\* A request with all five filters active, answered with a ticket.
C17_Witness ==
    /\ res.op = "getAllTickets" /\ res.code = 200 /\ res.reached
    /\ res.placeholders = 6 /\ Len(res.params) = 6
    /\ res.data # <<>>

(***************************************************************************)
(* Claims on ticket creation by drivers                                    *)
(***************************************************************************)
\* A customer string that is not empty and holds nothing but blanks between
\* its commas.
OnlyBlankNames(raw) ==
    /\ raw # <<>>
    /\ \A k \in DOMAIN raw : \A j \in DOMAIN raw[k] : raw[k][j] = Blank

\* C23: createTicket with a customer string that leaves no name after the
\* split on commas, the trim and the removal of empty segments (" , ") is
\* answered with the validation error 400 and inserts no ticket.
C23_NoCustomerLeftRejected ==
    [][\A u \in DriverUsers, b \in CreateBodies :
          (OnlyBlankNames(b.customer) /\ CreateTicket(u, b))
          => res'.code = 400 /\ tickets' = tickets]_vars

\* The answer that at least one customer is required.
C23_Witness ==
    res.op = "createTicket" /\ res.code = 400 /\ res.empty

(***************************************************************************)
(* Tickets naming several customers, and the invoices of those customers   *)
(***************************************************************************)
\* Tickets created in this specification.
MaxJoined == 2

\* A customer whose name is the joined string of a ticket naming two.
JoinedCustomer == [name |-> "Aecon, PCL Construction", default_bill_rate |-> 10000]

InitJoined ==
    /\ customers \in {SeedCustomers, Append(SeedCustomers, JoinedCustomer)}
    /\ drivers = SeedDrivers
    /\ tickets = <<>>
    /\ res = NoResponse
    /\ upd = <<>>
    /\ tx = NoTx
    /\ users = SeedUsers
    /\ auto = [SeedAuto EXCEPT !.customers = Len(customers) + 1]
    /\ pool = 0
    /\ adm = <<>>
    /\ sqlMode = "strict"

\* Bodies naming one customer or two, in either order.
JoinedBodies ==
    [date : {1}, others : {TRUE}, quantity : {Rat(10, 1)},
     customer : {<<AsSegment("Aecon")>>,
                 <<AsSegment("Aecon"), <<Blank, "PCL Construction">>>>,
                 <<AsSegment("PCL Construction"), <<Blank, "Aecon">>>>}]

NextJoined ==
    \/ \E u \in DriverUsers, b \in JoinedBodies :
          Len(tickets) < MaxJoined /\ CreateTicket(u, b)
    \/ \E id \in 1 .. MaxJoined : UpdateTicketStatus(id, "Approved")
    \/ \E c \in 1 .. (Len(SeedCustomers) + 1) :
          GenerateInvoice(c, "2025-01-01", "2025-01-03")

SpecJoined == InitJoined /\ [][NextJoined]_vars

\* The names of a ticket written one after the other with ", " in between.
RECURSIVE WithCommas(_)
WithCommas(names) ==
    IF Len(names) = 1 THEN names[1][1]
    ELSE names[1][1] \o ", " \o WithCommas(Tail(names))

\* C27: a ticket created with two or more customer names is stored with the
\* names joined by ", ", and an invoice lists such a ticket only for a
\* customer whose name is that whole string: it is in the invoice of none of
\* the customers it names, even when approved and in the period.
C27_JoinedTicketInNoInvoice ==
    /\ \A i \in DOMAIN tickets : JoinNames(tickets[i].customer) = WithCommas(tickets[i].customer)
    /\ (res.op = "generateInvoice" /\ res.code = 200) =>
          \A i \in Listed(res.data.tickets) :
              Len(tickets[i].customer) >= 2 =>
                  /\ customers[res.id].name = WithCommas(tickets[i].customer)
                  /\ \A k \in DOMAIN tickets[i].customer :
                        customers[res.id].name # tickets[i].customer[k][1]

\* An invoice of Aecon that leaves out an approved ticket of the period
\* naming Aecon and another customer.
C27_Witness ==
    /\ res.op = "generateInvoice" /\ res.code = 200
    /\ customers[res.id].name = "Aecon"
    /\ \E i \in DOMAIN tickets :
          /\ Len(tickets[i].customer) = 2
          /\ tickets[i].status = "Approved"
          /\ res.startDate <= tickets[i].date /\ tickets[i].date <= res.endDate
          /\ i \notin Listed(res.data.tickets)

(***************************************************************************)
(* The driver controller: getDashboard, getMyTickets, getTicketById and    *)
(* getMyPay next to createTicket.  Each handler looks its driver up with   *)
(* the statement of DriverRows and takes the first row returned; the       *)
(* statement has no ORDER BY, so any matching row may come first.          *)
(***************************************************************************)
MaxDriverTickets == 2

\* The response of a driver-facing read: the user of the request, the driver
\* row taken (id) and the data sent.
DriverResponse(op, code, user, driver, data) ==
    [op |-> op, code |-> code, id |-> driver, empty |-> FALSE, badStatus |-> FALSE,
     user |-> user, data |-> data]

\* WHERE driver_id = ?
TicketsOfDriver(d) == {i \in DOMAIN tickets : tickets[i].driver_id = d}

\* SELECT ... FROM tickets WHERE driver_id = ? ORDER BY date DESC, created_at DESC
GetMyTickets(user) ==
    /\ UNCHANGED <<adm, users, auto, pool, customers, drivers, tickets, sqlMode, upd, tx>>
    /\ IF DriverRows(user) = {}
       THEN res' = DriverResponse("getMyTickets", 404, user, 0, NoData)
       ELSE \E d \in DriverRows(user) :
              \E o \in Listings(TicketsOfDriver(d)) :
                 res' = DriverResponse("getMyTickets", 200, user, d, [tickets |-> o])

\* SELECT * FROM tickets WHERE id = ? AND driver_id = ?
GetTicketById(user, id) ==
    /\ UNCHANGED <<adm, users, auto, pool, customers, drivers, tickets, sqlMode, upd, tx>>
    /\ IF DriverRows(user) = {}
       THEN res' = DriverResponse("getTicketById", 404, user, 0, NoData)
       ELSE \E d \in DriverRows(user) :
              IF id \in TicketsOfDriver(d)
              THEN res' = DriverResponse("getTicketById", 200, user, d, [tickets |-> <<id>>])
              ELSE res' = DriverResponse("getTicketById", 404, user, d, NoData)

\* The number MySQL compares a string parameter as: its leading digits.
SqlNumber(s) == DecimalValue(DigitPrefix(StrTrimStart(s)))

NoPayFilter == [active |-> FALSE, bound |-> TRUE, monthNum |-> 0, year |-> 0]

\* The (month, year) filter of getMyPay; `month` is "" when the query has
\* none.  "YYYY-MM" binds the two pieces as strings; "<Name> YYYY" binds the
\* month number of the date parser and the second word, which is undefined
\* when the value has one word only, and then the statement is not executed.
\* (No request here has a month name the parser rejects.)
PayFilter(month) ==
    IF ~Truthy(month) THEN NoPayFilter
    ELSE IF Includes(month, "-")
    THEN LET parts == Split(month, "-")
         IN  [active |-> TRUE, bound |-> TRUE,
              monthNum |-> SqlNumber(parts[2]), year |-> SqlNumber(parts[1])]
    ELSE LET parts == Split(month, " ")
         IN  IF Len(parts) < 2
             THEN [active |-> TRUE, bound |-> FALSE, monthNum |-> 0, year |-> 0]
             ELSE [active |-> TRUE, bound |-> TRUE,
                   monthNum |-> DateGetMonth(parts[1], SqlNumber(parts[2])) + 1,
                   year |-> SqlNumber(parts[2])]

\* WHERE driver_id = ? [AND MONTH(date) = ? AND YEAR(date) = ?]
PayRows(d, f) ==
    {i \in TicketsOfDriver(d) :
        f.active => /\ MonthOfDate(tickets[i].date) = f.monthNum
                    /\ YearOfDate(tickets[i].date) = f.year}

\* tickets.every(ticket => ticket.status === 'Approved') ? 'Up-to-date' : 'Pending'
PayStatus(o) ==
    IF \A k \in DOMAIN o : tickets[o[k]].status = "Approved" THEN "Up-to-date" ELSE "Pending"

GetMyPay(user, month) ==
    /\ UNCHANGED <<adm, users, auto, pool, customers, drivers, tickets, sqlMode, upd, tx>>
    /\ IF DriverRows(user) = {}
       THEN res' = DriverResponse("getMyPay", 404, user, 0, NoData)
       ELSE \E d \in DriverRows(user) :
              LET f == PayFilter(month)
              IN  IF ~f.bound
                  THEN res' = DriverResponse("getMyPay", 500, user, d, NoData)
                  ELSE \E o \in Listings(PayRows(d, f)) :
                         res' = DriverResponse("getMyPay", 200, user, d,
                                   [tickets    |-> o,
                                    totalHours |-> ReduceSum(o, "quantity", Len(o)),
                                    grossPay   |-> ReduceSum(o, "total_pay", Len(o)),
                                    status     |-> PayStatus(o)])

\* SUM(column) over a set of rows, in cents (DECIMAL arithmetic is exact).
RECURSIVE SumColumn(_, _)
SumColumn(rows, column) ==
    IF rows = {} THEN 0
    ELSE LET i == CHOOSE x \in rows : TRUE
         IN  tickets[i][column] + SumColumn(rows \ {i}, column)

\* WHERE driver_id = ? AND date >= ? AND date <= ? AND status = 'Approved'
WeekRows(d, week) ==
    {i \in TicketsOfDriver(d) :
        /\ week.from <= tickets[i].date /\ tickets[i].date <= week.to
        /\ tickets[i].status = "Approved"}

\* LIMIT 5
FirstFive(o) == SubSeq(o, 1, IF Len(o) < 5 THEN Len(o) ELSE 5)

\* getDashboard: `week` is the pair of dates the clock gives, the Sunday of
\* the current week and the Saturday after it.
GetDashboard(user, week) ==
    /\ UNCHANGED <<adm, users, auto, pool, customers, drivers, tickets, sqlMode, upd, tx>>
    /\ IF DriverRows(user) = {}
       THEN res' = DriverResponse("getDashboard", 404, user, 0, NoData)
       ELSE \E d \in DriverRows(user) :
              \E o \in Listings(TicketsOfDriver(d)) :
                 res' = DriverResponse("getDashboard", 200, user, d,
                           [tickets      |-> FirstFive(o),
                            week         |-> Listed(FirstFive(o)) \cap WeekRows(d, week),
                            totalHours   |-> ParseFloat(SumColumn(WeekRows(d, week), "quantity")),
                            estimatedPay |-> ParseFloat(SumColumn(WeekRows(d, week), "total_pay"))])

\* The users of driver requests: the account of each driver, with the
\* driverId of the token set or unset.
DriverRequests ==
    UNION {{[id |-> SeedDrivers[d].user_id, driverId |-> x] : x \in {0, d}} :
              d \in DOMAIN SeedDrivers}

\* Ticket bodies that ask for a status of their own.
DriverBodies ==
    [date : {1, 32}, others : {TRUE}, quantity : {Rat(10, 1)},
     customer : {<<AsSegment("Aecon")>>}, status : {"Approved", "Rejected"}]

PayMonths == {"", "2025-01", "February 2025", "January"}

Weeks == {[from |-> -2, to |-> 4], [from |-> 26, to |-> 32]}

DriverTicketIds == 1 .. MaxDriverTickets

NextDriver ==
    \/ \E u \in DriverRequests, b \in DriverBodies :
          Len(tickets) < MaxDriverTickets /\ CreateTicket(u, b)
    \/ \E u \in DriverRequests : GetMyTickets(u)
    \/ \E u \in DriverRequests, id \in DriverTicketIds : GetTicketById(u, id)
    \/ \E u \in DriverRequests, m \in PayMonths : GetMyPay(u, m)
    \/ \E u \in DriverRequests, w \in Weeks : GetDashboard(u, w)
    \/ \E id \in DriverTicketIds : UpdateTicket(id, [NoPatch EXCEPT !.status = "Rejected"])
    \/ \E id \in DriverTicketIds : UpdateTicketStatus(id, "Approved")

InitDriver == InitTables /\ sqlMode = "strict"

SpecDriver == InitDriver /\ [][NextDriver]_vars

DriverOps == {"createTicket", "getMyTickets", "getTicketById", "getMyPay", "getDashboard"}

\* C21: every ticket createTicket inserts has status Pending whatever the
\* body asks for; a driver-facing operation leaves every existing ticket as
\* it is, and a ticket's status changes only in a step of the admin's
\* updateTicket or updateTicketStatus.
C21_PendingUntilAdminDecides ==
    [][/\ \A i \in DOMAIN tickets' \ DOMAIN tickets :
             res'.op = "createTicket" /\ tickets'[i].status = "Pending"
       /\ res'.op \in DriverOps => \A i \in DOMAIN tickets : tickets'[i] = tickets[i]
       /\ \A i \in DOMAIN tickets :
             tickets'[i].status # tickets[i].status
             => res'.op \in {"updateTicket", "updateTicketStatus"}]_vars

\* A ticket just created from a body asking for another status is Pending,
\* next to one the admin has approved.
C21_Witness ==
    /\ res.op = "createTicket" /\ res.code = 201
    /\ tickets[res.id].status = "Pending"
    /\ \E i \in DOMAIN tickets : tickets[i].status = "Approved"

\* The driver row of a user: the one whose user_id is the user's id.
OwnDriver(user, d) == d \in DOMAIN drivers /\ drivers[d].user_id = user.id

\* C30: every driver-facing operation acts on the driver record of the
\* authenticated user: a ticket createTicket inserts belongs to the user's
\* driver, and a read answers from the user's driver row with tickets of
\* that driver only, also when the token carries no driverId.
C30_OwnDriverRecordOnly ==
    [][/\ \A u \in DriverRequests, b \in DriverBodies :
             (CreateTicket(u, b) /\ res'.code = 201)
             => OwnDriver(u, tickets'[res'.id].driver_id)
       /\ (res'.op \in DriverOps \ {"createTicket"} /\ res'.code = 200)
             => /\ OwnDriver(res'.user, res'.id)
                /\ \A k \in DOMAIN res'.data.tickets :
                      OwnDriver(res'.user, tickets[res'.data.tickets[k]].driver_id)]_vars

(***************************************************************************)
(* Driver and customer management (admin controller): createDriver,        *)
(* updateDriver, deleteDriver, createCustomer, updateCustomer.  A handler  *)
(* that awaits several statements is a process of adm: each action is one  *)
(* of its awaits, so the statements of another request may run in between. *)
(* users, drivers and tickets are the committed tables; the rows a         *)
(* transaction has written and not committed are those its process record  *)
(* stands for, and they reach the tables at its commit.  The phone column  *)
(* is left out: it is written like name and read by nothing here.          *)
(***************************************************************************)
\* A table with the row of one id added or replaced, and with rows removed.
Put(table, id, row) == [i \in DOMAIN table \cup {id} |-> IF i = id THEN row ELSE table[i]]

Remove(table, ids) == [i \in DOMAIN table \ ids |-> table[i]]

\* A default_pay_rate of a body: a number (in cents), a text that is no
\* number, or undefined.
Rate(cents) == [kind |-> "number", cents |-> cents]
TextRate == [kind |-> "text", cents |-> 0]
NoRate == [kind |-> "undefined", cents |-> 0]

\* !default_pay_rate
RateFalsy(r) == r.kind = "undefined" \/ (r.kind = "number" /\ r.cents = 0)

\* A DECIMAL(10,2) column refuses a text that is no number in strict mode
\* and stores 0 for it otherwise.
DecimalRefused(r) == r.kind = "text" /\ sqlMode = "strict"

\* /^\d{4}$/.test(pin)
PinRegexTest(pin) == Len(pin) = 4 /\ AllDigits(pin)

\* `driver_${user_id_code}@trucking.com`
DriverEmail(code) == "driver_" \o code \o "@trucking.com"

\* The salts bcrypt may draw for a new hash.
Salts == {2, 3}

NoHash == Hash("", 0)

NoDriverBody == [user_id_code |-> "", name |-> "", default_pay_rate |-> NoRate, pin |-> ""]

IdleAdmin ==
    [pc |-> "idle", op |-> "none", id |-> 0, body |-> NoDriverBody,
     hash |-> NoHash, userId |-> 0, driverId |-> 0, done |-> 0]

\* The response of a management request, with its target and the code or
\* name its body carried.
AdminResponse(op, code, id, body) ==
    [op |-> op, code |-> code, id |-> id, empty |-> FALSE, badStatus |-> FALSE,
     key |-> IF "name" \in DOMAIN body /\ "user_id_code" \notin DOMAIN body
             THEN body.name ELSE body.user_id_code]

\* SELECT id FROM drivers WHERE user_id_code = ? [AND id != ?]
DriversWithCode(code, except) ==
    {d \in DOMAIN drivers \ {except} : SqlEquals(drivers[d].user_id_code, code)}

\* The rows of the unique indexes that other transactions have inserted and
\* not committed: an insert of the same key waits for them.
PendingEmails(p) ==
    {DriverEmail(adm[q].body.user_id_code) :
        q \in {r \in DOMAIN adm \ {p} : adm[r].op = "createDriver" /\ adm[r].done >= 1}}

PendingCodes(p) ==
    {adm[q].body.user_id_code :
        q \in {r \in DOMAIN adm \ {p} : adm[r].op = "createDriver" /\ adm[r].done >= 2}}

Waits(keys, key) == \E k \in keys : SqlEquals(k, key)

\* The unique index of users.email and of drivers.user_id_code.
EmailTaken(email) == \E u \in DOMAIN users : SqlEquals(users[u].email, email)

\* A request answered: its process is free again.
Answer(p, response) ==
    /\ res' = response
    /\ adm' = [adm EXCEPT ![p] = IdleAdmin]

\* createDriver up to the hash: the required fields, the PIN pattern, the
\* SELECT of the code and bcrypt.hash.
CreateDriverCheck(p, body) ==
    /\ adm[p].pc = "idle"
    /\ UNCHANGED <<customers, drivers, tickets, sqlMode, upd, tx, users, auto, pool>>
    /\ IF \/ ~Truthy(body.user_id_code) \/ ~Truthy(body.name)
          \/ RateFalsy(body.default_pay_rate) \/ ~Truthy(body.pin)
       THEN Answer(p, AdminResponse("createDriver", 400, 0, body))
       ELSE IF ~PinRegexTest(body.pin)
       THEN Answer(p, AdminResponse("createDriver", 400, 0, body))
       ELSE IF DriversWithCode(body.user_id_code, 0) # {}
       THEN Answer(p, AdminResponse("createDriver", 400, 0, body))
       ELSE /\ \E salt \in Salts :
                 adm' = [adm EXCEPT ![p] = [IdleAdmin EXCEPT !.pc = "hashed",
                            !.op = "createDriver", !.body = body,
                            !.hash = Hash(body.pin, salt)]]
            /\ UNCHANGED res

\* pool.getConnection() and connection.beginTransaction(), both before the
\* inner try: a getConnection that fails takes nothing; a beginTransaction
\* that fails leaves the handler through the outer catch, which answers
\* 500 and has no release.
Connect(p, op, from, failure) ==
    /\ adm[p].op = op /\ adm[p].pc = from
    /\ pool < ConnectionLimit
    /\ UNCHANGED <<customers, drivers, tickets, sqlMode, upd, tx, users, auto>>
    /\ CASE failure = "none" ->
                /\ pool' = pool + 1
                /\ adm' = [adm EXCEPT ![p].pc = "begun"]
                /\ UNCHANGED res
         [] failure = "getConnection" ->
                /\ UNCHANGED pool
                /\ Answer(p, AdminResponse(op, 500, adm[p].id, adm[p].body))
         [] failure = "beginTransaction" ->
                /\ pool' = pool + 1
                /\ Answer(p, AdminResponse(op, 500, adm[p].id, adm[p].body))

\* INSERT INTO users (email, password, role): the row waits behind an
\* uncommitted row of the same email and is refused by a committed one.
CreateDriverInsertUser(p, failure) ==
    /\ adm[p].op = "createDriver" /\ adm[p].pc = "begun"
    /\ ~Waits(PendingEmails(p), DriverEmail(adm[p].body.user_id_code))
    /\ UNCHANGED <<customers, drivers, tickets, sqlMode, upd, tx, users, pool, res>>
    /\ IF failure
       THEN /\ adm' = [adm EXCEPT ![p].pc = "failed"]
            /\ UNCHANGED auto
       ELSE /\ auto' = [auto EXCEPT !.users = @ + 1]
            /\ IF EmailTaken(DriverEmail(adm[p].body.user_id_code))
               THEN adm' = [adm EXCEPT ![p].pc = "failed"]
               ELSE adm' = [adm EXCEPT ![p].pc = "user", ![p].userId = auto.users,
                                         ![p].done = 1]

\* INSERT INTO drivers (user_id, user_id_code, name, phone, default_pay_rate, pin)
CreateDriverInsertDriver(p, failure) ==
    /\ adm[p].op = "createDriver" /\ adm[p].pc = "user"
    /\ ~Waits(PendingCodes(p), adm[p].body.user_id_code)
    /\ UNCHANGED <<customers, drivers, tickets, sqlMode, upd, tx, users, pool, res>>
    /\ IF failure \/ DecimalRefused(adm[p].body.default_pay_rate)
       THEN /\ adm' = [adm EXCEPT ![p].pc = "failed"]
            /\ UNCHANGED auto
       ELSE /\ auto' = [auto EXCEPT !.drivers = @ + 1]
            /\ IF DriversWithCode(adm[p].body.user_id_code, 0) # {}
               THEN adm' = [adm EXCEPT ![p].pc = "failed"]
               ELSE adm' = [adm EXCEPT ![p].pc = "driver", ![p].driverId = auto.drivers,
                                         ![p].done = 2]

\* The rows of the transaction of createDriver.
NewUser(a) ==
    [email |-> DriverEmail(a.body.user_id_code), password |-> a.hash, role |-> "driver"]

NewDriver(a) ==
    [user_id |-> a.userId, name |-> a.body.name,
     default_pay_rate |-> a.body.default_pay_rate.cents,
     user_id_code |-> a.body.user_id_code, pin |-> a.hash]

\* The foreign key of tickets without its cascade.
CascadedTicketsNone(id) == {}

\* DELETE FROM drivers WHERE id = ? takes the driver's tickets with it
\* (tickets.driver_id ... ON DELETE CASCADE).
CascadedTickets(id) == {i \in DOMAIN tickets : tickets[i].driver_id = id}

\* The tables as the transaction of a process sees them: the committed rows
\* and what its own statements have written.
UsersSeen(a) ==
    CASE a.op = "createDriver" /\ a.done >= 1 -> Put(users, a.userId, NewUser(a))
      [] a.op = "deleteDriver" /\ a.done >= 2 -> Remove(users, {a.userId})
      [] OTHER -> users

DriversSeen(a) ==
    CASE a.op = "createDriver" /\ a.done >= 2 -> Put(drivers, a.driverId, NewDriver(a))
      [] a.op = "deleteDriver" /\ a.done >= 1 -> Remove(drivers, {a.id})
      [] OTHER -> drivers

TicketsSeen(a) ==
    IF a.op = "deleteDriver" /\ a.done >= 1
    THEN Remove(tickets, CascadedTickets(a.id))
    ELSE tickets

\* connection.commit(), the success response and the release of the
\* finally; a commit that fails is caught like a statement.
Commit(p, failure) ==
    /\ adm[p].done = 2 /\ adm[p].pc # "failed"
    /\ UNCHANGED <<customers, sqlMode, upd, tx, auto>>
    /\ IF failure
       THEN /\ adm' = [adm EXCEPT ![p].pc = "failed"]
            /\ UNCHANGED <<users, drivers, tickets, pool, res>>
       ELSE /\ users' = UsersSeen(adm[p])
            /\ drivers' = DriversSeen(adm[p])
            /\ tickets' = TicketsSeen(adm[p])
            /\ pool' = pool - 1
            /\ IF adm[p].op = "createDriver"
               THEN Answer(p, AdminResponse("createDriver", 201, adm[p].driverId, adm[p].body))
               ELSE Answer(p, AdminResponse("deleteDriver", 200, adm[p].id, adm[p].body))

\* catch: connection.rollback() and rethrow; finally: connection.release();
\* outer catch: 500.  (A rollback that fails has lost the connection, and
\* the server drops the rows all the same.)
Rollback(p) ==
    /\ adm[p].pc = "failed"
    /\ UNCHANGED <<customers, sqlMode, upd, tx, auto>>
    /\ users' = AfterRollback(users, UsersSeen(adm[p]))
    /\ drivers' = AfterRollback(drivers, DriversSeen(adm[p]))
    /\ tickets' = AfterRollback(tickets, TicketsSeen(adm[p]))
    /\ pool' = pool - 1
    /\ Answer(p, AdminResponse(adm[p].op, 500, adm[p].id, adm[p].body))

\* updateDriver up to the hash: the SELECT of the driver, the SELECT of the
\* code among the other drivers, the PIN pattern and bcrypt.hash.
UpdateDriverCheck(p, id, body) ==
    /\ adm[p].pc = "idle"
    /\ UNCHANGED <<customers, drivers, tickets, sqlMode, upd, tx, users, auto, pool>>
    /\ IF id \notin DOMAIN drivers
       THEN Answer(p, AdminResponse("updateDriver", 404, id, body))
       ELSE IF Truthy(body.user_id_code) /\ DriversWithCode(body.user_id_code, id) # {}
       THEN Answer(p, AdminResponse("updateDriver", 400, id, body))
       ELSE IF Truthy(body.pin) /\ ~PinRegexTest(body.pin)
       THEN Answer(p, AdminResponse("updateDriver", 400, id, body))
       ELSE /\ \E salt \in Salts :
                 adm' = [adm EXCEPT ![p] = [IdleAdmin EXCEPT
                            !.pc = IF Truthy(body.pin) THEN "hashed" ELSE "fields",
                            !.op = "updateDriver", !.id = id, !.body = body,
                            !.userId = drivers[id].user_id,
                            !.hash = IF Truthy(body.pin) THEN Hash(body.pin, salt) ELSE NoHash]]
            /\ UNCHANGED res

\* UPDATE users SET password = ? WHERE id = ?, on the pool: it is committed
\* as soon as it returns.
UpdateDriverPassword(p, failure) ==
    /\ adm[p].op = "updateDriver" /\ adm[p].pc = "hashed"
    /\ UNCHANGED <<customers, drivers, tickets, sqlMode, upd, tx, auto, pool>>
    /\ IF failure
       THEN /\ Answer(p, AdminResponse("updateDriver", 500, adm[p].id, adm[p].body))
            /\ UNCHANGED users
       ELSE /\ users' = IF adm[p].userId \in DOMAIN users
                        THEN [users EXCEPT ![adm[p].userId].password = adm[p].hash]
                        ELSE users
            /\ adm' = [adm EXCEPT ![p].pc = "fields", ![p].done = 1]
            /\ UNCHANGED res

\* updates.length === 0
NoDriverFields(body) ==
    /\ ~Truthy(body.user_id_code) /\ ~Truthy(body.name)
    /\ body.default_pay_rate.kind = "undefined" /\ ~Truthy(body.pin)

\* The row after UPDATE drivers SET <the fields given> WHERE id = ?
UpdatedDriver(row, a) ==
    [row EXCEPT
       !.user_id_code = IF Truthy(a.body.user_id_code) THEN a.body.user_id_code ELSE @,
       !.name = IF Truthy(a.body.name) THEN a.body.name ELSE @,
       !.default_pay_rate = IF a.body.default_pay_rate.kind # "undefined"
                            THEN a.body.default_pay_rate.cents ELSE @,
       !.pin = IF Truthy(a.body.pin) THEN a.hash ELSE @]

\* The test of the fields and UPDATE drivers: the statement waits behind an
\* uncommitted row of the same code, and a committed one, a rate that is no
\* number (strict mode) or the storage makes it fail.
UpdateDriverRow(p, failure) ==
    /\ adm[p].op = "updateDriver" /\ adm[p].pc = "fields"
    /\ UNCHANGED <<customers, tickets, sqlMode, upd, tx, users, auto, pool>>
    /\ IF NoDriverFields(adm[p].body)
       THEN /\ Answer(p, AdminResponse("updateDriver", 400, adm[p].id, adm[p].body))
            /\ UNCHANGED drivers
       ELSE /\ Truthy(adm[p].body.user_id_code)
                  => ~Waits(PendingCodes(p), adm[p].body.user_id_code)
            /\ IF \/ failure
                  \/ DecimalRefused(adm[p].body.default_pay_rate)
                  \/ /\ Truthy(adm[p].body.user_id_code)
                     /\ adm[p].id \in DOMAIN drivers
                     /\ DriversWithCode(adm[p].body.user_id_code, adm[p].id) # {}
               THEN /\ Answer(p, AdminResponse("updateDriver", 500, adm[p].id, adm[p].body))
                    /\ UNCHANGED drivers
               ELSE /\ drivers' = IF adm[p].id \in DOMAIN drivers
                                  THEN [drivers EXCEPT ![adm[p].id] = UpdatedDriver(@, adm[p])]
                                  ELSE drivers
                    /\ Answer(p, AdminResponse("updateDriver", 200, adm[p].id, adm[p].body))

\* deleteDriver: SELECT user_id FROM drivers WHERE id = ?
DeleteDriverCheck(p, id) ==
    /\ adm[p].pc = "idle"
    /\ UNCHANGED <<customers, drivers, tickets, sqlMode, upd, tx, users, auto, pool>>
    /\ IF id \notin DOMAIN drivers
       THEN Answer(p, AdminResponse("deleteDriver", 404, id, NoDriverBody))
       ELSE /\ adm' = [adm EXCEPT ![p] = [IdleAdmin EXCEPT !.pc = "found",
                          !.op = "deleteDriver", !.id = id,
                          !.userId = drivers[id].user_id]]
            /\ UNCHANGED res

\* DELETE FROM drivers WHERE id = ?, then DELETE FROM users WHERE id = ?
DeleteDriverStatement(p, failure) ==
    /\ adm[p].op = "deleteDriver" /\ adm[p].pc \in {"begun", "driver"}
    /\ UNCHANGED <<customers, drivers, tickets, sqlMode, upd, tx, users, auto, pool, res>>
    /\ IF failure
       THEN adm' = [adm EXCEPT ![p].pc = "failed"]
       ELSE adm' = [adm EXCEPT ![p].pc = IF adm[p].pc = "begun" THEN "driver" ELSE "user",
                               ![p].done = @ + 1]

\* name = ? under the collation of the unique index.
CustomerIsNamed(c, name) == SqlEquals(customers[c].name, name)

\* createCustomer: the INSERT fails on the unique index of name.
CreateCustomer(body) ==
    /\ UNCHANGED <<adm, drivers, tickets, sqlMode, upd, tx, users, pool>>
    /\ IF ~Truthy(body.name) \/ body.default_bill_rate.kind = "undefined"
       THEN /\ res' = AdminResponse("createCustomer", 400, 0, body)
            /\ UNCHANGED <<customers, auto>>
       ELSE IF DecimalRefused(body.default_bill_rate)
       THEN /\ res' = AdminResponse("createCustomer", 500, 0, body)
            /\ UNCHANGED <<customers, auto>>
       ELSE /\ auto' = [auto EXCEPT !.customers = @ + 1]
            /\ IF \E c \in DOMAIN customers : CustomerIsNamed(c, body.name)
               THEN /\ res' = AdminResponse("createCustomer", 500, 0, body)
                    /\ UNCHANGED customers
               ELSE /\ customers' = Put(customers, auto.customers,
                                        [name |-> body.name,
                                         default_bill_rate |-> body.default_bill_rate.cents])
                    /\ res' = AdminResponse("createCustomer", 201, auto.customers, body)

\* The customers table after UPDATE customers SET <the fields given> WHERE id = ?
UpdatedCustomers(id, body) ==
    IF id \in DOMAIN customers
    THEN [customers EXCEPT
            ![id].name = IF Truthy(body.name) THEN body.name ELSE @,
            ![id].default_bill_rate = IF body.default_bill_rate.kind # "undefined"
                                      THEN body.default_bill_rate.cents ELSE @]
    ELSE customers

\* updateCustomer with the tickets of the customer priced again.
UpdateCustomerRepricing(id, body) ==
    /\ UNCHANGED <<adm, drivers, sqlMode, upd, tx, users, auto, pool>>
    /\ customers' = UpdatedCustomers(id, body)
    /\ tickets' = [i \in DOMAIN tickets |->
                     IF id \in DOMAIN customers /\ CustomerIs(tickets[i], customers[id].name)
                     THEN [tickets[i] EXCEPT !.bill_rate = customers'[id].default_bill_rate]
                     ELSE tickets[i]]
    /\ res' = AdminResponse("updateCustomer", 200, id, body)

\* updateCustomer: no field given is a 400; the UPDATE fails on the unique
\* index of name and on a rate that is no number (strict mode); an id that
\* no customer has matches no row and the answer is still 200.
UpdateCustomer(id, body) ==
    /\ UNCHANGED <<adm, drivers, tickets, sqlMode, upd, tx, users, auto, pool>>
    /\ IF ~Truthy(body.name) /\ body.default_bill_rate.kind = "undefined"
       THEN /\ res' = AdminResponse("updateCustomer", 400, id, body)
            /\ UNCHANGED customers
       ELSE IF \/ DecimalRefused(body.default_bill_rate)
               \/ /\ id \in DOMAIN customers /\ Truthy(body.name)
                  /\ \E c \in DOMAIN customers \ {id} : CustomerIsNamed(c, body.name)
       THEN /\ res' = AdminResponse("updateCustomer", 500, id, body)
            /\ UNCHANGED customers
       ELSE /\ customers' = UpdatedCustomers(id, body)
            /\ res' = AdminResponse("updateCustomer", 200, id, body)

(***************************************************************************)
(* The management requests one after another: one admin process, every     *)
(* statement of a transaction liable to fail.                              *)
(***************************************************************************)
\* Drivers created in a run.
MaxNewDrivers == 1

\* Connections that may be left out of the pool with no handler to release
\* them.
MaxLeaked == 1

\* The handlers inside the try of their transaction: each holds one
\* connection, which its finally releases.
Holding ==
    Cardinality({p \in DOMAIN adm : adm[p].pc \in {"begun", "user", "driver", "failed"}})
      + (IF tx.pc \in {"loop", "failed"} THEN 1 ELSE 0)

\* A beginTransaction that fails, as long as the bound allows one more.
MayFail(f) == f = "beginTransaction" => pool - Holding < MaxLeaked

\* One approved ticket of each seeded driver, priced at creation.
ManagedTickets ==
    <<[driver_id |-> 1, date |-> 1, customer |-> <<AsSegment("Aecon")>>, quantity |-> 1000,
       bill_rate |-> 13500, pay_rate |-> 2500, total_bill |-> 135000, total_pay |-> 25000,
       status |-> "Approved"],
      [driver_id |-> 2, date |-> 2, customer |-> <<AsSegment("EllisDon")>>, quantity |-> 1000,
       bill_rate |-> 11000, pay_rate |-> 0, total_bill |-> 110000, total_pay |-> 0,
       status |-> "Pending"]>>

InitManage ==
    /\ customers = SeedCustomers
    /\ drivers = SeedDrivers
    /\ tickets = ManagedTickets
    /\ res = NoResponse
    /\ upd = <<>>
    /\ tx = NoTx
    /\ users = SeedUsers
    /\ auto = SeedAuto
    /\ pool = 0
    /\ adm = <<IdleAdmin>>
    /\ sqlMode = "strict"

DriverBody(code, name, rate, pin) ==
    [user_id_code |-> code, name |-> name, default_pay_rate |-> rate, pin |-> pin]

\* createDriver bodies: a new code, a code in use, a PIN that is no PIN, a
\* rate that is no number, a field missing.
CreateDriverBodies ==
    {DriverBody("D9", "Nia", Rate(3000), "1234"),
     DriverBody("D1", "Nia", Rate(3000), "1234"),
     DriverBody("D9", "Nia", Rate(3000), "12a4"),
     DriverBody("D9", "Nia", TextRate, "1234"),
     DriverBody("D9", "", Rate(3000), "1234")}

\* updateDriver bodies: a new code, the old code of driver 1 or the code of
\* driver 2, a new PIN alone or with a rate that is no number, a new rate,
\* nothing.
UpdateDriverBodies ==
    {DriverBody("D9", "", NoRate, ""),
     DriverBody("D2", "", NoRate, ""),
     DriverBody("", "", NoRate, "4321"),
     DriverBody("", "", TextRate, "4321"),
     DriverBody("", "", Rate(4000), ""),
     DriverBody("", "", NoRate, "")}

ManagedDriverIds == 1 .. (Len(SeedDrivers) + 1)

UpdatedDriverIds == {1, Len(SeedDrivers) + 2}

CustomerBodies ==
    {[name |-> "Aecon", default_bill_rate |-> Rate(15000)],
     [name |-> "", default_bill_rate |-> Rate(15000)],
     [name |-> "Bird", default_bill_rate |-> NoRate]}

ConnectFailures == {"none", "getConnection", "beginTransaction"}

\* A handler going on after an await.
ManageStep(p, failures, connectFailures) ==
    \/ \E f \in connectFailures :
          /\ MayFail(f)
          /\ \/ Connect(p, "createDriver", "hashed", f)
             \/ Connect(p, "deleteDriver", "found", f)
    \/ \E f \in failures : CreateDriverInsertUser(p, f)
    \/ \E f \in failures : CreateDriverInsertDriver(p, f)
    \/ \E f \in failures : DeleteDriverStatement(p, f)
    \/ \E f \in failures : Commit(p, f)
    \/ Rollback(p)
    \/ \E f \in failures : UpdateDriverPassword(p, f)
    \/ \E f \in failures : UpdateDriverRow(p, f)

\* A request arriving.
ManageRequest(p) ==
    \/ \E b \in CreateDriverBodies :
          auto.users < SeedAuto.users + MaxNewDrivers /\ CreateDriverCheck(p, b)
    \/ \E id \in UpdatedDriverIds, b \in UpdateDriverBodies : UpdateDriverCheck(p, id, b)
    \/ \E id \in ManagedDriverIds : DeleteDriverCheck(p, id)

NextManage ==
    \/ \E p \in DOMAIN adm : ManageRequest(p)
    \/ \E p \in DOMAIN adm : ManageStep(p, BOOLEAN, ConnectFailures)

SpecManage == InitManage /\ [][NextManage]_vars

(***************************************************************************)
(* Claims on driver management                                             *)
(***************************************************************************)
\* The step in which a management request of the kind `op` is answered.
AnswerStep(op) ==
    /\ res'.op = op
    /\ \E p \in DOMAIN adm : adm'[p].pc = "idle" /\ adm[p].op \in {op, "none"}

UserOfCode(table, code) == \E u \in DOMAIN table : table[u].email = DriverEmail(code)

DriverOfCode(table, code) == \E d \in DOMAIN table : table[d].user_id_code = code

\* C24: createDriver is atomic: a call that fails, also after its user
\* INSERT succeeded, leaves the users and drivers tables as they were, and
\* after any createDriver call a user with email driver_<code>@trucking.com
\* exists if and only if a driver row with that code exists.
C24_UserIffDriver ==
    [][AnswerStep("createDriver")
       => /\ res'.code # 201 => users' = users /\ drivers' = drivers
          /\ UserOfCode(users', res'.key) <=> DriverOfCode(drivers', res'.key)]_vars

\* C26: a ticket leaves the table only in the step that takes its driver
\* away, and a deleteDriver answered with success leaves neither the driver
\* row, nor its user account, nor any ticket of that driver.
C26_TicketsGoWithTheirDriver ==
    [][/\ \A i \in DOMAIN tickets \ DOMAIN tickets' :
             tickets[i].driver_id \in DOMAIN drivers \ DOMAIN drivers'
       /\ (AnswerStep("deleteDriver") /\ res'.code = 200)
             => /\ res'.id \notin DOMAIN drivers'
                /\ \A p \in DOMAIN adm :
                      adm[p].op = "deleteDriver" => adm[p].userId \notin DOMAIN users'
                /\ \A i \in DOMAIN tickets' : tickets'[i].driver_id # res'.id]_vars

\* Driver 1 and its account deleted, its ticket gone with it and the ticket
\* of driver 2 still there.
C26_Witness ==
    /\ res.op = "deleteDriver" /\ res.code = 200 /\ res.id = 1
    /\ 1 \notin DOMAIN drivers /\ SeedDrivers[1].user_id \notin DOMAIN users
    /\ DOMAIN tickets = {2}

\* C28: after any updateDriver call, whatever its answer, the password hash
\* of the driver's user equals the PIN hash stored in the driver row.
C28_PasswordIsPinHash ==
    [][AnswerStep("updateDriver")
       => \A d \in DOMAIN drivers' :
             (d = res'.id /\ drivers'[d].user_id \in DOMAIN users')
             => users'[drivers'[d].user_id].password = drivers'[d].pin]_vars

(***************************************************************************)
(* Rates changed after tickets were priced: updateCustomer, updateBillRates*)
(* and updateDriver next to createTicket.                                  *)
(***************************************************************************)
\* Tickets created on top of the two of ManagedTickets.
MaxPriced == 1

RateBodies ==
    {[name |-> "", default_bill_rate |-> Rate(16000)],
     [name |-> "", default_bill_rate |-> NoRate]}

PayBodies == {DriverBody("", "", Rate(4000), ""), DriverBody("", "", TextRate, "")}

PricedRate == [id |-> 1, default_bill_rate |-> Rat(150, 1)]

PricedBody == [date |-> 3, others |-> TRUE, quantity |-> Rat(10, 1),
               customer |-> <<AsSegment("Aecon")>>]

NextPriced ==
    \/ Len(tickets) < Len(ManagedTickets) + MaxPriced /\ CreateTicket(FirstDriverUser, PricedBody)
    \/ \E id \in {1, Len(SeedCustomers) + 1}, b \in RateBodies : UpdateCustomer(id, b)
    \/ RatesBegin(TRUE, <<PricedRate>>)
    \/ RatesExecute
    \/ RatesCommit
    \/ RatesRollback
    \/ \E p \in DOMAIN adm, b \in PayBodies : UpdateDriverCheck(p, 1, b)
    \/ \E p \in DOMAIN adm : UpdateDriverRow(p, FALSE)

SpecPriced == InitManage /\ [][NextPriced]_vars

\* A step of updateCustomer, updateBillRates or updateDriver.
RateChangeStep ==
    \/ res'.op \in {"updateCustomer", "updateBillRates", "updateDriver"}
    \/ tx' # tx \/ adm' # adm
    \/ customers' # customers \/ drivers' # drivers \/ users' # users

\* C22: bill_rate, pay_rate, total_bill and total_pay of a ticket are frozen
\* at its creation: updateCustomer, updateBillRates and updateDriver leave
\* these four fields of every existing ticket as they were.
C22_PricesFrozen ==
    [][RateChangeStep
       => \A i \in DOMAIN tickets :
             /\ i \in DOMAIN tickets'
             /\ tickets'[i].bill_rate = tickets[i].bill_rate
             /\ tickets'[i].pay_rate = tickets[i].pay_rate
             /\ tickets'[i].total_bill = tickets[i].total_bill
             /\ tickets'[i].total_pay = tickets[i].total_pay]_vars

\* The rates of customer 1 and driver 1 have both changed and their first
\* ticket still carries the rates it was created with.
C22_Witness ==
    /\ customers[1].default_bill_rate = 15000 /\ drivers[1].default_pay_rate = 4000
    /\ tickets[1].bill_rate = 13500 /\ tickets[1].total_bill = 135000
    /\ tickets[1].pay_rate = 2500 /\ tickets[1].total_pay = 25000

(***************************************************************************)
(* The pool connections of createDriver, deleteDriver and updateBillRates. *)
(* A handler that has been called goes on after each await (the event loop *)
(* runs every continuation that is ready), which is the fairness of        *)
(* SpecPool; requests arrive or not.                                       *)
(***************************************************************************)
PoolBody == DriverBody("D9", "Nia", Rate(3000), "1234")

\* The statements of a transaction on its connection.
TransactionStep(p) ==
    \/ \E f \in BOOLEAN : CreateDriverInsertUser(p, f)
    \/ \E f \in BOOLEAN : CreateDriverInsertDriver(p, f)
    \/ \E f \in BOOLEAN : DeleteDriverStatement(p, f)
    \/ \E f \in BOOLEAN : Commit(p, f)
    \/ Rollback(p)

\* getConnection and beginTransaction of createDriver and deleteDriver.
ConnectStep(p) ==
    \E f \in ConnectFailures :
       /\ MayFail(f)
       /\ \/ Connect(p, "createDriver", "hashed", f)
          \/ Connect(p, "deleteDriver", "found", f)

AdminStep(p) == ConnectStep(p) \/ TransactionStep(p)

RatesStep == RatesExecute \/ RatesCommit \/ RatesRollback

NextPool ==
    \/ \E p \in DOMAIN adm :
          auto.users < SeedAuto.users + MaxNewDrivers /\ CreateDriverCheck(p, PoolBody)
    \/ \E p \in DOMAIN adm, id \in DOMAIN SeedDrivers : DeleteDriverCheck(p, id)
    \/ RatesBegin(TRUE, <<PricedRate>>)
    \/ \E f \in ConnectFailures \ {"none"} :
          MayFail(f) /\ RatesBeginFails(<<PricedRate>>, f)
    \/ \E p \in DOMAIN adm : AdminStep(p)
    \/ RatesStep

SpecPool ==
    /\ InitManage
    /\ [][NextPool]_vars
    /\ \A p \in {1} : WF_vars(AdminStep(p))
    /\ WF_vars(RatesStep)

\* C29: every connection createDriver, deleteDriver or updateBillRates takes
\* from the pool is eventually released, on every path, also when
\* beginTransaction, a statement, the commit or the rollback fails: a
\* handler inside its transaction leaves it, and a connection that is out of
\* the pool with no handler left to release it comes back.
C29_ConnectionsReleased ==
    /\ \A p \in {1} :
          (adm[p].pc \in {"begun", "user", "driver", "failed"}) ~> (adm[p].pc = "idle")
    /\ (tx.pc \in {"loop", "failed"}) ~> (tx.pc \in {"committed", "rolledback"})
    /\ (pool > Holding) ~> (pool = Holding)

(***************************************************************************)
(* Two management requests at a time: createDriver and updateDriver on two *)
(* admin processes, and createCustomer, whose one INSERT is atomic.  No    *)
(* statement fails here but on a unique index.                             *)
(***************************************************************************)
\* Customers created in a run.
MaxNewCustomers == 1

InitCodes ==
    /\ customers = SeedCustomers
    /\ drivers = SeedDrivers
    /\ tickets = ManagedTickets
    /\ res = NoResponse
    /\ upd = <<>>
    /\ tx = NoTx
    /\ users = SeedUsers
    /\ auto = SeedAuto
    /\ pool = 0
    /\ adm = [p \in Procs |-> IdleAdmin]
    /\ sqlMode = "strict"

\* createDriver with a new code and with the code of driver 1.
CodeBodies ==
    {DriverBody("D9", "Nia", Rate(3000), "1234"),
     DriverBody("D1", "Nia", Rate(3000), "1234")}

\* updateDriver of driver 1: the new code with a new PIN, the code of
\* driver 2.
RecodeBodies ==
    {DriverBody("D9", "", NoRate, "4321"),
     DriverBody("D2", "", NoRate, "")}

NameBodies ==
    {[name |-> "Aecon", default_bill_rate |-> Rate(15000)],
     [name |-> "aecon ", default_bill_rate |-> Rate(15000)],
     [name |-> "Bird", default_bill_rate |-> Rate(15000)]}

NextCodes ==
    \/ \E p \in DOMAIN adm, b \in CodeBodies :
          auto.users < SeedAuto.users + MaxNewDrivers + 1 /\ CreateDriverCheck(p, b)
    \/ \E p \in DOMAIN adm, b \in RecodeBodies : UpdateDriverCheck(p, 1, b)
    \/ \E p \in DOMAIN adm :
          \/ Connect(p, "createDriver", "hashed", "none")
          \/ CreateDriverInsertUser(p, FALSE)
          \/ CreateDriverInsertDriver(p, FALSE)
          \/ Commit(p, FALSE)
          \/ Rollback(p)
          \/ UpdateDriverPassword(p, FALSE)
          \/ UpdateDriverRow(p, FALSE)
    \/ \E b \in NameBodies :
          auto.customers < SeedAuto.customers + MaxNewCustomers + 1 /\ CreateCustomer(b)

SpecCodes == InitCodes /\ [][NextCodes]_vars

\* No two rows of the table agree on the column.
UniqueColumn(table, column) ==
    \A i, j \in DOMAIN table : i # j => ~SqlEquals(table[i][column], table[j][column])

\* The process p is answered in this step with something else than success.
Rejected(p, op) ==
    /\ adm[p].op = op /\ adm'[p].pc = "idle"
    /\ res'.op = op /\ res'.code \notin {200, 201}

\* C25: a request that duplicates a driver's user_id_code (createDriver,
\* updateDriver) or a customer's name (createCustomer) is rejected before
\* any of its effects is committed: it has written nothing that stays and
\* the tables are as they were; at every moment at most one driver carries
\* a code and at most one customer a name, also when two creations with the
\* same code run at the same time.
C25_DuplicatesRejectedUntouched ==
    [][/\ UniqueColumn(drivers', "user_id_code") /\ UniqueColumn(customers', "name")
       /\ \A p \in DOMAIN adm :
             (Rejected(p, "createDriver") \/ Rejected(p, "updateDriver"))
             => /\ adm[p].op = "updateDriver" => adm[p].done = 0
                /\ users' = users /\ drivers' = drivers
       /\ (res'.op = "createCustomer" /\ res'.code # 201 /\ res' # res)
             => customers' = customers]_vars

====
